---- MODULE Spec2Model ----
(***************************************************************************)
(* A model of the signal-proxy data plane: the Signal tunnel engine        *)
(* (internal/proxy/server.go), the HTTP CONNECT and SOCKS5 relays          *)
(* (internal/httpproxy/server.go, internal/proxy/stats.go), the identity   *)
(* store and its credential cache (internal/auth/auth.go), the token       *)
(* bucket limiter (internal/auth/ratelimit.go) and the bandwidth tracker   *)
(* (package bandwidth).                                                    *)
(*                                                                         *)
(* Each engine has its own next-state relation over its own variables;     *)
(* the other engines' variables are left unchanged by it.                  *)
(***************************************************************************)
EXTENDS Integers, Sequences, FiniteSets, TLC

\* ------------------------------------------------------------------------
\* Bounds of the model
\* ------------------------------------------------------------------------

\* cfg.MaxConns of the checked configuration
MaxConns == 1

\* connections that arrive at the Signal listener
NumConns == 2

Conns == 1 .. NumConns

VARIABLES
    \* ---- Signal engine (proxy.Server)
    connSem,        \* number of tokens in the s.connSem channel
    wg,             \* s.wg counter
    shutdown,       \* TRUE once s.shutdown is closed
    lnClosed,       \* TRUE once s.ln.Close() was called
    ctxDone,        \* TRUE once the context passed to Start is cancelled
    startPc,        \* position of Start: "check", "accept", "drain", "returned", "failed"
    watchPc,        \* position of watchShutdown: "wait", "closing", "done"
    drainTimedOut,  \* TRUE when drainConnections left through time.After(30s)
    connPc,         \* per connection: position of its handler goroutine
    clientOpen,     \* per connection: the client endpoint is open
    upOpen,         \* per connection: the upstream endpoint is open
    doneCh,         \* per connection: number of values in the relay's done channel
    rejected,       \* MetricConnectionsRejected
    activeConns,    \* MetricActiveConns
    atCancel        \* history: the connections in HandleConnection when ctx was cancelled

sigVars == << connSem, wg, shutdown, lnClosed, ctxDone, startPc, watchPc,
              drainTimedOut, connPc, clientOpen, upOpen, doneCh,
              rejected, activeConns, atCancel >>

\* ------------------------------------------------------------------------
\* Signal engine: NewServer, Start, watchShutdown, drainConnections,
\* HandleConnection
\* ------------------------------------------------------------------------

\* positions of a connection's goroutine in which it holds its admission slot
Holding == {"peek", "api", "dial", "write", "relay", "returned"}

\* positions in which HandleConnection is executing
InHandler == {"peek", "api", "dial", "write", "relay"}

SigInit ==
    /\ connSem = 0
    /\ wg = 0
    /\ shutdown = FALSE
    /\ lnClosed = FALSE
    /\ ctxDone = FALSE
    /\ startPc = "check"
    /\ watchPc = "wait"
    /\ drainTimedOut = FALSE
    /\ connPc = [c \in Conns |-> "idle"]
    /\ clientOpen = [c \in Conns |-> FALSE]
    /\ upOpen = [c \in Conns |-> FALSE]
    /\ doneCh = [c \in Conns |-> 0]
    /\ rejected = 0
    /\ activeConns = 0
    /\ atCancel = {}

\* a faulty variant of TryAcquire: the slot is handed out without looking at the channel
TryAcquireUnbounded(sem) == TRUE

\* select { case s.connSem <- struct{}{}: ... default: ... }: the send succeeds
\* iff the buffered channel (capacity cfg.MaxConns) is not full
TryAcquire(sem) == sem < MaxConns

\* the supervisor cancels the context (SIGINT / SIGTERM)
Cancel ==
    /\ ~ctxDone
    /\ ctxDone' = TRUE
    /\ atCancel' = {c \in Conns : connPc[c] \in InHandler}
    /\ UNCHANGED << connSem, wg, shutdown, lnClosed, startPc, watchPc,
                    drainTimedOut, connPc, clientOpen, upOpen, doneCh,
                    rejected, activeConns >>

\* watchShutdown: <-ctx.Done(); close(s.shutdown)
WatchCloseShutdown ==
    /\ watchPc = "wait"
    /\ ctxDone
    /\ shutdown' = TRUE
    /\ watchPc' = "closing"
    /\ UNCHANGED << connSem, wg, lnClosed, ctxDone, startPc, drainTimedOut,
                    connPc, clientOpen, upOpen, doneCh, rejected,
                    activeConns, atCancel >>

\* watchShutdown: s.ln.Close()
WatchCloseListener ==
    /\ watchPc = "closing"
    /\ lnClosed' = TRUE
    /\ watchPc' = "done"
    /\ UNCHANGED << connSem, wg, shutdown, ctxDone, startPc, drainTimedOut,
                    connPc, clientOpen, upOpen, doneCh, rejected,
                    activeConns, atCancel >>

\* Start, top of the accept loop: select { case <-s.shutdown: drain; default: }
CheckShutdown ==
    /\ startPc = "check"
    /\ startPc' = IF shutdown THEN "drain" ELSE "accept"
    /\ UNCHANGED << connSem, wg, shutdown, lnClosed, ctxDone, watchPc,
                    drainTimedOut, connPc, clientOpen, upOpen, doneCh,
                    rejected, activeConns, atCancel >>

\* case s.connSem <- struct{}{}: s.wg.Add(1); go func(c) {... HandleConnection ...}
Admit(c) ==
    /\ connSem' = connSem + 1
    /\ wg' = wg + 1
    /\ connPc' = [connPc EXCEPT ![c] = "peek"]
    /\ clientOpen' = [clientOpen EXCEPT ![c] = TRUE]
    /\ activeConns' = activeConns + 1
    /\ UNCHANGED rejected

\* a faulty variant of Reject: the connection is closed but the rejection is not counted
RejectUncounted(c) ==
    /\ connPc' = [connPc EXCEPT ![c] = "rejected"]
    /\ UNCHANGED << rejected, connSem, wg, clientOpen, activeConns >>

\* default: MetricConnectionsRejected.Inc(); conn.Close()
Reject(c) ==
    /\ rejected' = rejected + 1
    /\ connPc' = [connPc EXCEPT ![c] = "rejected"]
    /\ UNCHANGED << connSem, wg, clientOpen, activeConns >>

\* Start: Accept returns connection c and the admission select runs
\* (connections are numbered in the order in which Accept returns them)
AcceptConn(c) ==
    /\ startPc = "accept"
    /\ ~lnClosed
    /\ connPc[c] = "idle"
    /\ \A b \in Conns : b < c => connPc[b] # "idle"
    /\ IF TryAcquire(connSem) THEN Admit(c) ELSE Reject(c)
    /\ startPc' = "check"
    /\ UNCHANGED << shutdown, lnClosed, ctxDone, watchPc, drainTimedOut,
                    upOpen, doneCh, atCancel >>

\* Start: Accept fails; a closed shutdown channel leads to the drain, a
\* timeout error continues the loop, any other error is returned
AcceptError(timeout) ==
    /\ startPc = "accept"
    /\ startPc' = IF shutdown THEN "drain"
                  ELSE IF timeout THEN "check" ELSE "failed"
    /\ UNCHANGED << connSem, wg, shutdown, lnClosed, ctxDone, watchPc,
                    drainTimedOut, connPc, clientOpen, upOpen, doneCh,
                    rejected, activeConns, atCancel >>

\* a faulty variant of WaitReturned: the drain does not wait for the handlers
WaitReturnedAtOnce(w) == TRUE

\* s.wg.Wait() returns when the counter is zero
WaitReturned(w) == w = 0

\* drainConnections: case <-done (s.wg.Wait() returned)
DrainDone ==
    /\ startPc = "drain"
    /\ WaitReturned(wg)
    /\ startPc' = "returned"
    /\ UNCHANGED << connSem, wg, shutdown, lnClosed, ctxDone, watchPc,
                    drainTimedOut, connPc, clientOpen, upOpen, doneCh,
                    rejected, activeConns, atCancel >>

\* drainConnections: case <-time.After(30 * time.Second): only a log line
DrainTimeout ==
    /\ startPc = "drain"
    /\ drainTimedOut' = TRUE
    /\ startPc' = "returned"
    /\ UNCHANGED << connSem, wg, shutdown, lnClosed, ctxDone, watchPc,
                    connPc, clientOpen, upOpen, doneCh, rejected,
                    activeConns, atCancel >>

\* HandleConnection returns: the deferred clientConn.Close(),
\* upConn.Close() and MetricActiveConns.Dec() run
HandlerReturn(c) ==
    /\ connPc' = [connPc EXCEPT ![c] = "returned"]
    /\ clientOpen' = [clientOpen EXCEPT ![c] = FALSE]
    /\ upOpen' = [upOpen EXCEPT ![c] = FALSE]
    /\ activeConns' = activeConns - 1

\* PeekSNI fails (read error, or the 10 s deadline) or yields a TLS record
\* whose SNI is not allowed
PeekReject(c) ==
    /\ connPc[c] = "peek"
    /\ HandlerReturn(c)
    /\ UNCHANGED << connSem, wg, shutdown, lnClosed, ctxDone, startPc, watchPc,
                    drainTimedOut, doneCh, rejected, atCancel >>

\* PeekSNI yields an allowed SNI (next: "dial") or a non-TLS first byte
\* (next: "api", handleInternalAPI)
PeekOK(c, next) ==
    /\ connPc[c] = "peek"
    /\ connPc' = [connPc EXCEPT ![c] = next]
    /\ UNCHANGED << connSem, wg, shutdown, lnClosed, ctxDone, startPc, watchPc,
                    drainTimedOut, clientOpen, upOpen, doneCh,
                    rejected, activeConns, atCancel >>

\* handleInternalAPI returns (served, or the 10 s deadline on the client)
ApiDone(c) ==
    /\ connPc[c] = "api"
    /\ HandlerReturn(c)
    /\ UNCHANGED << connSem, wg, shutdown, lnClosed, ctxDone, startPc, watchPc,
                    drainTimedOut, doneCh, rejected, atCancel >>

\* dialer.DialContext(ctx, ...) succeeds; it cannot once ctx is cancelled
DialOK(c) ==
    /\ connPc[c] = "dial"
    /\ ~ctxDone
    /\ connPc' = [connPc EXCEPT ![c] = "write"]
    /\ upOpen' = [upOpen EXCEPT ![c] = TRUE]
    /\ UNCHANGED << connSem, wg, shutdown, lnClosed, ctxDone, startPc, watchPc,
                    drainTimedOut, clientOpen, doneCh, rejected,
                    activeConns, atCancel >>

\* dialer.DialContext fails (refused, 10 s timeout, or ctx cancelled)
DialFail(c) ==
    /\ connPc[c] = "dial"
    /\ HandlerReturn(c)
    /\ UNCHANGED << connSem, wg, shutdown, lnClosed, ctxDone, startPc, watchPc,
                    drainTimedOut, doneCh, rejected, atCancel >>

\* upConn.Write(initialData) succeeds; deadlines cleared, both copy
\* goroutines started
WriteOK(c) ==
    /\ connPc[c] = "write"
    /\ connPc' = [connPc EXCEPT ![c] = "relay"]
    /\ doneCh' = [doneCh EXCEPT ![c] = 0]
    /\ UNCHANGED << connSem, wg, shutdown, lnClosed, ctxDone, startPc, watchPc,
                    drainTimedOut, clientOpen, upOpen, rejected,
                    activeConns, atCancel >>

\* upConn.Write(initialData) fails
WriteFail(c) ==
    /\ connPc[c] = "write"
    /\ HandlerReturn(c)
    /\ UNCHANGED << connSem, wg, shutdown, lnClosed, ctxDone, startPc, watchPc,
                    drainTimedOut, doneCh, rejected, atCancel >>

\* one of the two copyData goroutines leaves its loop (ctx done, read error,
\* EOF, idle deadline, write error) and its deferred done <- struct{}{} runs;
\* the channel is local to the handler and is followed only while it waits
CopyExit(c) ==
    /\ connPc[c] = "relay"
    /\ doneCh[c] < 2
    /\ doneCh' = [doneCh EXCEPT ![c] = @ + 1]
    /\ UNCHANGED << connSem, wg, shutdown, lnClosed, ctxDone, startPc, watchPc,
                    drainTimedOut, connPc, clientOpen, upOpen, rejected,
                    activeConns, atCancel >>

\* HandleConnection: select { case <-done: case <-ctx.Done(): }, metrics,
\* return
RelayEnd(c) ==
    /\ connPc[c] = "relay"
    /\ doneCh[c] > 0 \/ ctxDone
    /\ HandlerReturn(c)
    /\ doneCh' = [doneCh EXCEPT ![c] = 0]
    /\ UNCHANGED << connSem, wg, shutdown, lnClosed, ctxDone, startPc, watchPc,
                    drainTimedOut, rejected, atCancel >>

\* a faulty variant of ReleaseSlot: the goroutine goes on without taking
\* its token out of the channel
ReleaseSlotKept(c) ==
    /\ connPc[c] = "returned"
    /\ connPc' = [connPc EXCEPT ![c] = "released"]
    /\ UNCHANGED << connSem, wg, shutdown, lnClosed, ctxDone, startPc, watchPc,
                    drainTimedOut, clientOpen, upOpen, doneCh,
                    rejected, activeConns, atCancel >>

\* the goroutine's deferred func() { <-s.connSem }()
ReleaseSlot(c) ==
    /\ connPc[c] = "returned"
    /\ connSem' = connSem - 1
    /\ connPc' = [connPc EXCEPT ![c] = "released"]
    /\ UNCHANGED << wg, shutdown, lnClosed, ctxDone, startPc, watchPc,
                    drainTimedOut, clientOpen, upOpen, doneCh,
                    rejected, activeConns, atCancel >>

\* the goroutine's deferred s.wg.Done()
WgDone(c) ==
    /\ connPc[c] = "released"
    /\ wg' = wg - 1
    /\ connPc' = [connPc EXCEPT ![c] = "finished"]
    /\ UNCHANGED << connSem, shutdown, lnClosed, ctxDone, startPc, watchPc,
                    drainTimedOut, clientOpen, upOpen, doneCh,
                    rejected, activeConns, atCancel >>




\* ------------------------------------------------------------------------
\* HTTP proxy engine (httpproxy.Server) and SOCKS5 engine (socks5.Server):
\* Start, watchShutdown and the relay of handleConnect, handleHTTP and
\* handleConnection
\* ------------------------------------------------------------------------

\* sessions that arrive at the HTTP and SOCKS5 listeners
NumSess == 1

\* bytes a session's peer may send in one direction
MaxBytes == 2

Sess == 1 .. NumSess

Dirs == {"up", "down"}

\* "connect": CONNECT tunnel; "plain": absolute-URL request; on the plaintext
\* listener or (TLS) on the TLS listener; "socks": SOCKS5 session
HttpKinds == {"connect", "plain", "connectTLS", "plainTLS"}
TunnelKinds == {"connect", "connectTLS", "socks"}
Kinds == HttpKinds \cup {"socks"}

VARIABLES
    tCtxDone,       \* the context passed to both Start functions is cancelled
    tlsOn,          \* HTTP_PROXY_TLS with a certificate pair: TLS listener started
    srv,            \* http.Server state per listener: "off", "serving", "draining", "closed"
    httpStartPc,    \* httpproxy Start: "serve", "wgwait", "returned"
    httpWatchPc,    \* httpproxy watchShutdown: "wait", "sdHttp", "sdHttps", "done"
    shutdownExpired,\* the 30 s shutdownCtx of httpproxy watchShutdown has expired
    socksShutdown,  \* socks5 s.shutdown is closed
    socksLnClosed,  \* socks5 s.ln.Close() was called
    socksStartPc,   \* socks5 Start: "check", "accept", "returned", "failed"
    socksWatchPc,   \* socks5 watchShutdown: "wait", "closing", "done"
    tKind,          \* per session: its kind, "none" before it arrives
    tPc,            \* per session: "idle", "relay", "returned"
    tOpen,          \* per session: the endpoints ("client", "target") the proxy holds open
    peerClosed,     \* per session: the peers that have closed their side
    copying,        \* per session: the copy directions whose goroutine is running
    written,        \* per session and direction: bytes written to the destination
    byteVar,        \* per session and direction: the variables upBytes / downBytes
    tDone,          \* per session: values sent on the done channel
    recorded        \* per session: what was handed to RecordBytes and the metrics

engVars == << tCtxDone, tlsOn, srv, httpStartPc, httpWatchPc, shutdownExpired,
              socksShutdown, socksLnClosed, socksStartPc, socksWatchPc >>

sessVars == << tKind, tPc, tOpen, peerClosed, copying, written, byteVar, tDone,
               recorded >>

tunVars == << engVars, sessVars >>

NoRecord == [up |-> -1, down |-> -1]

\* the engines after NewServer and the listeners' start; tls: whether
\* HTTP_PROXY_TLS is set and a certificate pair is configured
TunInit(tls) ==
    /\ tCtxDone = FALSE
    /\ tlsOn = tls
    /\ srv = [k \in {"http", "https"} |->
                IF k = "http" \/ tlsOn THEN "serving" ELSE "off"]
    /\ httpStartPc = "serve"
    /\ httpWatchPc = "wait"
    /\ shutdownExpired = FALSE
    /\ socksShutdown = FALSE
    /\ socksLnClosed = FALSE
    /\ socksStartPc = "check"
    /\ socksWatchPc = "wait"
    /\ tKind = [s \in Sess |-> "none"]
    /\ tPc = [s \in Sess |-> "idle"]
    /\ tOpen = [s \in Sess |-> {}]
    /\ peerClosed = [s \in Sess |-> {}]
    /\ copying = [s \in Sess |-> {}]
    /\ written = [s \in Sess |-> [d \in Dirs |-> 0]]
    /\ byteVar = [s \in Sess |-> [d \in Dirs |-> 0]]
    /\ tDone = [s \in Sess |-> 0]
    /\ recorded = [s \in Sess |-> NoRecord]

\* the listener a kind of HTTP session arrives on
ListenerOf(k) == IF k \in {"connectTLS", "plainTLS"} THEN "https" ELSE "http"

\* the connections net/http tracks as active on listener l: requests whose
\* handler is running on a connection that was not hijacked
TrackedActive(l) ==
    {s \in Sess : tKind[s] \in {"plain", "plainTLS"} /\ ListenerOf(tKind[s]) = l
                  /\ tPc[s] = "relay"}

\* source and destination endpoint of a copy direction
Src(d) == IF d = "up" THEN "client" ELSE "target"
Dst(d) == IF d = "up" THEN "target" ELSE "client"

\* the supervisor cancels the context
TCancel ==
    /\ ~tCtxDone
    /\ tCtxDone' = TRUE
    /\ UNCHANGED << tlsOn, srv, httpStartPc, httpWatchPc, shutdownExpired,
                    socksShutdown, socksLnClosed, socksStartPc, socksWatchPc >>
    /\ UNCHANGED sessVars

\* ---- socks5.Server

\* socks5 watchShutdown: <-ctx.Done(); close(s.shutdown)
SocksWatchCloseShutdown ==
    /\ socksWatchPc = "wait"
    /\ tCtxDone
    /\ socksShutdown' = TRUE
    /\ socksWatchPc' = "closing"
    /\ UNCHANGED << tCtxDone, tlsOn, srv, httpStartPc, httpWatchPc,
                    shutdownExpired, socksLnClosed, socksStartPc >>
    /\ UNCHANGED sessVars

\* socks5 watchShutdown: s.ln.Close()
SocksWatchCloseListener ==
    /\ socksWatchPc = "closing"
    /\ socksLnClosed' = TRUE
    /\ socksWatchPc' = "done"
    /\ UNCHANGED << tCtxDone, tlsOn, srv, httpStartPc, httpWatchPc,
                    shutdownExpired, socksShutdown, socksStartPc >>
    /\ UNCHANGED sessVars

\* socks5 Start, top of the accept loop: case <-s.shutdown: return nil
SocksCheckShutdown ==
    /\ socksStartPc = "check"
    /\ socksStartPc' = IF socksShutdown THEN "returned" ELSE "accept"
    /\ UNCHANGED << tCtxDone, tlsOn, srv, httpStartPc, httpWatchPc,
                    shutdownExpired, socksShutdown, socksLnClosed, socksWatchPc >>
    /\ UNCHANGED sessVars

\* socks5 Start: Accept fails; return nil after shutdown, continue on a
\* timeout, return the error otherwise
SocksAcceptError(timeout) ==
    /\ socksStartPc = "accept"
    /\ socksStartPc' = IF socksShutdown THEN "returned"
                       ELSE IF timeout THEN "check" ELSE "failed"
    /\ UNCHANGED << tCtxDone, tlsOn, srv, httpStartPc, httpWatchPc,
                    shutdownExpired, socksShutdown, socksLnClosed, socksWatchPc >>
    /\ UNCHANGED sessVars

\* ---- httpproxy.Server

\* httpproxy watchShutdown: <-ctx.Done(); close(s.shutdown); the 30 s
\* shutdownCtx starts; s.httpServer.Shutdown(shutdownCtx) closes the
\* plaintext listener
HttpWatchBegin ==
    /\ httpWatchPc = "wait"
    /\ tCtxDone
    /\ srv' = [srv EXCEPT !["http"] = "draining"]
    /\ httpWatchPc' = "sdHttp"
    /\ UNCHANGED << tCtxDone, tlsOn, httpStartPc, shutdownExpired,
                    socksShutdown, socksLnClosed, socksStartPc, socksWatchPc >>
    /\ UNCHANGED sessVars

\* Shutdown of the server on listener l returns: nil when no tracked
\* connection is active, ctx.Err() when shutdownCtx has expired; it closes no
\* active connection in either case
ShutdownReturns(l, expired) ==
    /\ srv[l] = "draining"
    /\ IF expired THEN TrackedActive(l) # {} ELSE TrackedActive(l) = {}
    /\ shutdownExpired' = (shutdownExpired \/ expired)
    /\ srv' = [srv EXCEPT ![l] = "closed"]

\* watchShutdown after s.httpServer.Shutdown returned: s.httpsServer.Shutdown
\* closes the TLS listener, if there is one
HttpWatchNext(expired) ==
    /\ httpWatchPc = "sdHttp"
    /\ srv["http"] = "draining"
    /\ IF expired THEN TrackedActive("http") # {} ELSE TrackedActive("http") = {}
    /\ shutdownExpired' = (shutdownExpired \/ expired)
    /\ srv' = [srv EXCEPT !["http"] = "closed",
                          !["https"] = IF tlsOn THEN "draining" ELSE @]
    /\ httpWatchPc' = IF tlsOn THEN "sdHttps" ELSE "done"
    /\ UNCHANGED << tCtxDone, tlsOn, httpStartPc, socksShutdown, socksLnClosed,
                    socksStartPc, socksWatchPc >>
    /\ UNCHANGED sessVars

\* watchShutdown: s.httpsServer.Shutdown(shutdownCtx) returns
HttpWatchEnd(expired) ==
    /\ httpWatchPc = "sdHttps"
    /\ ShutdownReturns("https", expired)
    /\ httpWatchPc' = "done"
    /\ UNCHANGED << tCtxDone, tlsOn, httpStartPc, socksShutdown, socksLnClosed,
                    socksStartPc, socksWatchPc >>
    /\ UNCHANGED sessVars

\* a faulty variant of ServeReturned: Serve returns only when Shutdown has returned
ServeReturnedAfterDrain(l) == srv[l] \in {"off", "closed"}

\* http.Server.Serve returns ErrServerClosed as soon as Shutdown has closed
\* its listener
ServeReturned(l) == srv[l] # "serving"

\* httpproxy Start: s.httpServer.Serve(s.ln) returns
HttpServeReturns ==
    /\ httpStartPc = "serve"
    /\ ServeReturned("http")
    /\ httpStartPc' = "wgwait"
    /\ UNCHANGED << tCtxDone, tlsOn, srv, httpWatchPc, shutdownExpired,
                    socksShutdown, socksLnClosed, socksStartPc, socksWatchPc >>
    /\ UNCHANGED sessVars

\* httpproxy Start: s.wg.Wait() (the goroutine running httpsServer.Serve)
\* returns, Start returns nil
HttpStartReturns ==
    /\ httpStartPc = "wgwait"
    /\ ServeReturned("https")
    /\ httpStartPc' = "returned"
    /\ UNCHANGED << tCtxDone, tlsOn, srv, httpWatchPc, shutdownExpired,
                    socksShutdown, socksLnClosed, socksStartPc, socksWatchPc >>
    /\ UNCHANGED sessVars

\* ---- sessions

\* a request or connection passed its checks, the target was dialled (and
\* the client hijacked, 200 sent): the relay starts
TStart(s, k) ==
    /\ tPc[s] = "idle"
    /\ \A b \in Sess : b < s => tPc[b] # "idle"
    /\ IF k = "socks"
         THEN /\ socksStartPc = "accept"
              /\ ~socksLnClosed
              /\ socksStartPc' = "check"
         ELSE /\ srv[ListenerOf(k)] = "serving"
              /\ UNCHANGED socksStartPc
    /\ tKind' = [tKind EXCEPT ![s] = k]
    /\ tPc' = [tPc EXCEPT ![s] = "relay"]
    /\ tOpen' = [tOpen EXCEPT ![s] = {"client", "target"}]
    /\ copying' = [copying EXCEPT ![s] =
                      IF k \in TunnelKinds THEN Dirs ELSE {"down"}]
    /\ UNCHANGED << tCtxDone, tlsOn, srv, httpStartPc, httpWatchPc,
                    shutdownExpired, socksShutdown, socksLnClosed, socksWatchPc >>
    /\ UNCHANGED << peerClosed, written, byteVar, tDone, recorded >>

\* a peer closes its side: reads from it return EOF
PeerClose(s, side) ==
    /\ tPc[s] = "relay"
    /\ side \notin peerClosed[s]
    /\ peerClosed' = [peerClosed EXCEPT ![s] = @ \cup {side}]
    /\ UNCHANGED engVars
    /\ UNCHANGED << tKind, tPc, tOpen, copying, written, byteVar, tDone, recorded >>

\* io.Copy / io.CopyBuffer moves one more byte from the source to the
\* destination of direction d
CopyChunk(s, d) ==
    /\ d \in copying[s]
    /\ {Src(d), Dst(d)} \subseteq tOpen[s]
    /\ Src(d) \notin peerClosed[s]
    /\ Dst(d) \notin peerClosed[s]
    /\ written[s][d] < MaxBytes
    /\ written' = [written EXCEPT ![s][d] = @ + 1]
    /\ UNCHANGED engVars
    /\ UNCHANGED << tKind, tPc, tOpen, peerClosed, copying, byteVar, tDone, recorded >>

\* io.Copy / io.CopyBuffer of direction d returns n (EOF from the source
\* peer, a write error on a closed destination peer, or an endpoint closed by
\* the handler); the goroutine stores n in upBytes / downBytes and sends on
\* done
CopyEnd(s, d) ==
    /\ d \in copying[s]
    /\ \/ Src(d) \in peerClosed[s]
       \/ Dst(d) \in peerClosed[s]
       \/ ~({Src(d), Dst(d)} \subseteq tOpen[s])
    /\ copying' = [copying EXCEPT ![s] = @ \ {d}]
    /\ byteVar' = [byteVar EXCEPT ![s][d] = written[s][d]]
    /\ tDone' = [tDone EXCEPT ![s] = @ + 1]
    /\ UNCHANGED engVars
    /\ UNCHANGED << tKind, tPc, tOpen, peerClosed, written, recorded >>

\* a faulty variant of DoneNeeded: the CONNECT handler waits for one direction only
DoneNeededOne(k) == 1

\* the number of receives from done before the handler goes on: handleConnect
\* has <-done twice, the SOCKS5 handleConnection once; handleHTTP runs its
\* single io.Copy itself
DoneNeeded(k) == IF k \in {"connect", "connectTLS"} THEN 2 ELSE 1

\* the handler leaves its wait, reports upBytes and downBytes to the metrics
\* and to Bandwidth.RecordBytes and returns: the deferred Close calls run
HandlerEnd(s) ==
    /\ tPc[s] = "relay"
    /\ tDone[s] >= DoneNeeded(tKind[s])
    /\ recorded' = [recorded EXCEPT ![s] =
                       [up |-> byteVar[s]["up"], down |-> byteVar[s]["down"]]]
    /\ tOpen' = [tOpen EXCEPT ![s] = {}]
    /\ tPc' = [tPc EXCEPT ![s] = "returned"]
    /\ UNCHANGED engVars
    /\ UNCHANGED << tKind, peerClosed, copying, written, byteVar, tDone >>

\* ------------------------------------------------------------------------
\* Identity store (auth.UserStore): LoadFromFile, ValidateCredentials and
\* the credential cache
\* ------------------------------------------------------------------------

\* concurrent callers of ValidateCredentials
NumValidators == 2

\* reloads of the catalog after the one NewUserStore makes
MaxReloads == 1

Validators == 1 .. NumValidators

\* the spellings clients use for the one user name of the catalog
Spellings == {"bob", "Bob"}

\* strings.ToLower on the spellings
ToLower(n) == IF n = "Bob" THEN "bob" ELSE n

LowerNames == {ToLower(n) : n \in Spellings}

\* the passwords clients present; PasswordHash names the password whose
\* bcrypt hash the catalog stores
Passwords == {"pw1", "pw2"}

\* what a catalog file says about the user: its password, or not enabled
CatalogEntries == Passwords \cup {"disabled"}

VARIABLES
    users,      \* s.users: folded name -> *User; gen tells the load that made it
    loads,      \* reloads begun so far
    loadPc,     \* LoadFromFile: "idle" | "swapped" (holds s.mu, cache not yet cleared)
    credCache,  \* s.credCache: cache key -> entry
    vPc,        \* validator -> "idle" | "cacheCheck" | "readUsers" | "bcrypt" | "insert" | "done"
    vName,      \* validator -> the username argument
    vPass,      \* validator -> the password argument
    vUser,      \* validator -> the *User it holds
    vResult     \* validator -> "none" | "hit" | "ok" | "fail"

authVars == << users, loads, loadPc, credCache, vPc, vName, vPass, vUser, vResult >>

NoUser == [Username |-> "", PasswordHash |-> "", gen |-> -1]

NoEntry == [user |-> NoUser, fresh |-> FALSE]

\* cacheKey := strings.ToLower(username) + ":" + hex(sha256(password))
CacheKey(username, password) == << ToLower(username), "sha256", password >>

CacheKeys == {CacheKey(n, p) : n \in Spellings, p \in Passwords}

\* the map LoadFromFile builds from a file whose one user has entry e
LoadedUsers(e, g) ==
    [n \in LowerNames |->
        IF e = "disabled"
          THEN NoUser
          ELSE [Username |-> "bob", PasswordHash |-> e, gen |-> g]]

AuthInit ==
    /\ users = LoadedUsers("pw1", 0)
    /\ loads = 0
    /\ loadPc = "idle"
    /\ credCache = [k \in CacheKeys |-> NoEntry]
    /\ vPc = [p \in Validators |-> "idle"]
    /\ vName = [p \in Validators |-> ""]
    /\ vPass = [p \in Validators |-> ""]
    /\ vUser = [p \in Validators |-> NoUser]
    /\ vResult = [p \in Validators |-> "none"]

\* LoadFromFile up to the call of InvalidateAllCredentials: takes s.mu and
\* replaces s.users
LoadSwap(e) ==
    /\ loadPc = "idle"
    /\ loads < MaxReloads
    /\ users' = LoadedUsers(e, loads + 1)
    /\ loads' = loads + 1
    /\ loadPc' = "swapped"
    /\ UNCHANGED << credCache, vPc, vName, vPass, vUser, vResult >>

\* InvalidateAllCredentials, then LoadFromFile returns and releases s.mu
LoadInvalidate ==
    /\ loadPc = "swapped"
    /\ credCache' = [k \in CacheKeys |-> NoEntry]
    /\ loadPc' = "idle"
    /\ UNCHANGED << users, loads, vPc, vName, vPass, vUser, vResult >>

\* credCacheTTL has passed since the entry under k was stored
CacheExpire(k) ==
    /\ credCache[k] # NoEntry
    /\ credCache[k].fresh
    /\ credCache' = [credCache EXCEPT ![k].fresh = FALSE]
    /\ UNCHANGED << users, loads, loadPc, vPc, vName, vPass, vUser, vResult >>

\* a caller enters ValidateCredentials(n, pw)
VBegin(p, n, pw) ==
    /\ vPc[p] = "idle"
    /\ vPc' = [vPc EXCEPT ![p] = "cacheCheck"]
    /\ vName' = [vName EXCEPT ![p] = n]
    /\ vPass' = [vPass EXCEPT ![p] = pw]
    /\ vUser' = [vUser EXCEPT ![p] = NoUser]
    /\ vResult' = [vResult EXCEPT ![p] = "none"]
    /\ UNCHANGED << users, loads, loadPc, credCache >>

\* the fast path: the lookup under credCacheMu.RLock
VCacheCheck(p) ==
    /\ vPc[p] = "cacheCheck"
    /\ LET entry == credCache[CacheKey(vName[p], vPass[p])]
       IN  IF entry # NoEntry /\ entry.fresh
             THEN /\ vUser' = [vUser EXCEPT ![p] = entry.user]
                  /\ vResult' = [vResult EXCEPT ![p] = "hit"]
                  /\ vPc' = [vPc EXCEPT ![p] = "done"]
             ELSE /\ vPc' = [vPc EXCEPT ![p] = "readUsers"]
                  /\ UNCHANGED << vUser, vResult >>
    /\ UNCHANGED << users, loads, loadPc, credCache, vName, vPass >>

\* the read of s.users under s.mu.RLock, which waits for a reload to return
VReadUsers(p) ==
    /\ vPc[p] = "readUsers"
    /\ loadPc = "idle"
    /\ LET user == users[ToLower(vName[p])]
       IN  IF user = NoUser
             THEN /\ vResult' = [vResult EXCEPT ![p] = "fail"]
                  /\ vPc' = [vPc EXCEPT ![p] = "done"]
                  /\ UNCHANGED vUser
             ELSE /\ vUser' = [vUser EXCEPT ![p] = user]
                  /\ vPc' = [vPc EXCEPT ![p] = "bcrypt"]
                  /\ UNCHANGED vResult
    /\ UNCHANGED << users, loads, loadPc, credCache, vName, vPass >>

\* bcrypt.CompareHashAndPassword, with no lock held
VBcrypt(p) ==
    /\ vPc[p] = "bcrypt"
    /\ IF vUser[p].PasswordHash = vPass[p]
         THEN /\ vPc' = [vPc EXCEPT ![p] = "insert"]
              /\ UNCHANGED << vUser, vResult >>
         ELSE /\ vPc' = [vPc EXCEPT ![p] = "done"]
              /\ vUser' = [vUser EXCEPT ![p] = NoUser]
              /\ vResult' = [vResult EXCEPT ![p] = "fail"]
    /\ UNCHANGED << users, loads, loadPc, credCache, vName, vPass >>

\* the store of the entry under credCacheMu.Lock, and the return
VInsert(p) ==
    /\ vPc[p] = "insert"
    /\ credCache' = [credCache EXCEPT ![CacheKey(vName[p], vPass[p])] =
                        [user |-> vUser[p], fresh |-> TRUE]]
    /\ vResult' = [vResult EXCEPT ![p] = "ok"]
    /\ vPc' = [vPc EXCEPT ![p] = "done"]
    /\ UNCHANGED << users, loads, loadPc, vName, vPass, vUser >>

\* the caller is done with the result and may call again
VReturn(p) ==
    /\ vPc[p] = "done"
    /\ vPc' = [vPc EXCEPT ![p] = "idle"]
    /\ vName' = [vName EXCEPT ![p] = ""]
    /\ vPass' = [vPass EXCEPT ![p] = ""]
    /\ vUser' = [vUser EXCEPT ![p] = NoUser]
    /\ vResult' = [vResult EXCEPT ![p] = "none"]
    /\ UNCHANGED << users, loads, loadPc, credCache >>

\* ------------------------------------------------------------------------
\* Token bucket limiter (auth.RateLimiter): SetLimit and Allow
\* ------------------------------------------------------------------------

\* ticks the limiter's clock runs
MaxClock == 3

\* the clock is read in ticks of 1/TicksPerSecond s, so that less than one
\* token can be refilled between two requests
TicksPerSecond == 2

\* token counts and rates are float64 in the code; here they are counted in
\* sixtieths of a token, which makes rpm/60 and rpm/6 whole numbers
RateScale == 60

\* the rate_limit_rpm values of the catalog: one below and one above the
\* 60 rpm at which rpm/6 passes the minimum burst of 10
Rpms == {30, 90}

VARIABLES
    rateNow,    \* time.Now(), in ticks
    buckets,    \* r.buckets: username -> *tokenBucket
    limits,     \* r.limits: username -> rpm (0: no entry)
    allowed     \* what the last Allow returned: "none" | "yes" | "no"

rateVars == << rateNow, buckets, limits, allowed >>

NoBucket == [tokens |-> -1, maxTokens |-> -1, refillRate |-> 0, lastRefill |-> -1]

RateInit ==
    /\ rateNow = 0
    /\ buckets = [u \in Spellings |-> NoBucket]
    /\ limits = [u \in Spellings |-> 0]
    /\ allowed = "none"

\* maxTokens := float64(rpm) / 6; if maxTokens < 10 { maxTokens = 10 }
MaxTokens(rpm) ==
    IF (rpm * RateScale) \div 6 < 10 * RateScale
      THEN 10 * RateScale
      ELSE (rpm * RateScale) \div 6

\* the refill without its clamp to maxTokens
ClampNone(tokens, maxTokens) == tokens

\* if bucket.tokens > bucket.maxTokens { bucket.tokens = bucket.maxTokens }
Clamp(tokens, maxTokens) == IF tokens > maxTokens THEN maxTokens ELSE tokens

\* SetLimit(u, rpm); LoadFromFile calls it only with rpm > 0
SetLimit(u, rpm) ==
    /\ limits' = [limits EXCEPT ![u] = rpm]
    /\ buckets' = [buckets EXCEPT ![u] =
                      [tokens     |-> MaxTokens(rpm),
                       maxTokens  |-> MaxTokens(rpm),
                       refillRate |-> (rpm * RateScale) \div 60,
                       lastRefill |-> rateNow]]
    /\ UNCHANGED << rateNow, allowed >>

\* Allow: the tokens of the bucket after the refill for the time elapsed
\* since lastRefill, before a token is taken
Refilled(bucket) ==
    LET elapsed == rateNow - bucket.lastRefill
    IN  Clamp(bucket.tokens + (elapsed * bucket.refillRate) \div TicksPerSecond,
              bucket.maxTokens)

\* a faulty variant of HasToken: any positive fraction of a token is enough
HasTokenAny(tokens) == tokens > 0

\* if bucket.tokens >= 1
HasToken(tokens) == tokens >= RateScale

\* Allow(u)
Allow(u) ==
    IF buckets[u] = NoBucket
      THEN /\ allowed' = "yes"
           /\ UNCHANGED << rateNow, buckets, limits >>
      ELSE LET bucket   == buckets[u]
               refilled == Refilled(bucket)
               ok       == HasToken(refilled)
           IN  /\ buckets' = [buckets EXCEPT ![u] =
                                 [bucket EXCEPT
                                     !.tokens = IF ok THEN refilled - RateScale
                                                      ELSE refilled,
                                     !.lastRefill = rateNow]]
               /\ allowed' = IF ok THEN "yes" ELSE "no"
               /\ UNCHANGED << rateNow, limits >>

\* a tick passes on the monotonic clock
RateTick ==
    /\ rateNow < MaxClock
    /\ rateNow' = rateNow + 1
    /\ UNCHANGED << buckets, limits, allowed >>

\* ------------------------------------------------------------------------
\* The rate-limit check of a request: UserStore.CheckRateLimit as called by
\* handleRequest and handleConnection, over the limits LoadFromFile sets
\* ------------------------------------------------------------------------

\* rate-limit checks made in one run
MaxChecks == 12

\* the rate_limit_rpm a catalog file gives the user: none, or 60 per minute
CatalogRpms == {0, 60}

VARIABLES
    catUser,      \* s.users[folded name]: Username as the file spells it, RateLimitRPM
    rateLimited,  \* MetricRateLimited: label -> count
    nChecks,      \* rate-limit checks made so far
    checkedRpm,   \* the RateLimitRPM the last check read (-1: no check yet)
    burstAt,      \* bucket key -> the tick of the last check that found the bucket full (-1: none since the last load)
    passed,       \* bucket key -> checks allowed since burstAt
    denied,       \* bucket key -> checks refused since burstAt
    limitedBase   \* bucket key -> rateLimited of the key when the burst began

limVars == << catUser, rateLimited, nChecks, checkedRpm, burstAt, passed, denied,
              limitedBase >>

LimInit ==
    /\ catUser = [Username |-> "bob", RateLimitRPM |-> 0]
    /\ rateLimited = [u \in Spellings |-> 0]
    /\ nChecks = 0
    /\ checkedRpm = -1
    /\ burstAt = [u \in Spellings |-> -1]
    /\ passed = [u \in Spellings |-> 0]
    /\ denied = [u \in Spellings |-> 0]
    /\ limitedBase = [u \in Spellings |-> 0]

\* LoadFromFile, as far as the limiter goes: the user map is replaced, and
\* SetLimit is called under the file's spelling when the limit is positive
LoadLimits(name, rpm) ==
    /\ catUser' = [Username |-> name, RateLimitRPM |-> rpm]
    /\ IF rpm > 0
         THEN SetLimit(name, rpm)
         ELSE UNCHANGED rateVars
    /\ burstAt' = [u \in Spellings |-> -1]
    /\ UNCHANGED << rateLimited, nChecks, checkedRpm, passed, denied, limitedBase >>

\* a faulty variant of Unlimited: the limiter is asked whatever the catalog says
UnlimitedNever(user) == FALSE

\* CheckRateLimit: if user.RateLimitRPM <= 0 { return true }
Unlimited(user) == user.RateLimitRPM <= 0

\* the rate-limit step of a request whose client spelled the user name as
\* typed: CheckRateLimit(typed), and on refusal the count under that label
CheckRateLimit(typed) ==
    /\ nChecks < MaxChecks
    /\ nChecks' = nChecks + 1
    /\ checkedRpm' = catUser.RateLimitRPM
    /\ IF Unlimited(catUser)
         THEN /\ allowed' = "yes"
              /\ UNCHANGED << rateNow, buckets, limits >>
         ELSE Allow(typed)
    /\ rateLimited' = [rateLimited EXCEPT ![typed] =
                          IF allowed' = "no" THEN @ + 1 ELSE @]
    /\ LET limited == ~Unlimited(catUser) /\ buckets[typed] # NoBucket
           starts  == limited /\ Refilled(buckets[typed]) = buckets[typed].maxTokens
       IN  /\ burstAt' = IF starts THEN [burstAt EXCEPT ![typed] = rateNow]
                                   ELSE burstAt
           /\ limitedBase' = IF starts
                               THEN [limitedBase EXCEPT ![typed] = rateLimited[typed]]
                               ELSE limitedBase
           /\ passed' = [passed EXCEPT ![typed] =
                            IF ~limited THEN @
                            ELSE (IF starts THEN 0 ELSE @)
                                 + (IF allowed' = "yes" THEN 1 ELSE 0)]
           /\ denied' = [denied EXCEPT ![typed] =
                            IF ~limited THEN @
                            ELSE (IF starts THEN 0 ELSE @)
                                 + (IF allowed' = "no" THEN 1 ELSE 0)]
    /\ UNCHANGED catUser

\* ------------------------------------------------------------------------
\* Bandwidth tracker (bandwidth.Tracker) and the policy checks of the HTTP
\* proxy's handleRequest and of the SOCKS5 handleConnection
\* ------------------------------------------------------------------------

\* proxy requests made to the two engines
NumReq == 2

\* months that begin while the tracker runs
MaxMonth == 1

Reqs == 1 .. NumReq

\* byte counts are kept in MiB: int64(limitGB) * 1024 * 1024 * 1024 bytes
\* are limitGB * 1024 MiB
MiBPerGiB == 1024

\* what one direction of a session moves, in MiB
Sizes == {0, MiBPerGiB \div 2}

\* net/http status codes
StatusUnauthorized == 401
StatusForbidden == 403
StatusProxyAuthRequired == 407
StatusTooManyRequests == 429
StatusBadGateway == 502
StatusOK == 200

\* SOCKS5 protocol constants
MethodUserPass == 2
ReplySucceeded == 0
ReplyHostUnreachable == 4
ReplyCmdNotSupported == 7
ReplyAddrTypeNotSupported == 8

\* what the proxy writes to the client
Status(code) == [kind |-> "status", code |-> code]
Method(code) == [kind |-> "method", code |-> code]
AuthStatus(code) == [kind |-> "auth", code |-> code]
Reply(code) == [kind |-> "reply", code |-> code]

\* the catalog in force: one plain user with a monthly cap of 1 GB, no rate
\* limit, no connection limit and no expiry date
Catalog ==
    [n \in LowerNames |->
        [Username         |-> "bob",
         Role             |-> "user",
         RateLimitRPM     |-> 0,
         BandwidthLimitGB |-> 1,
         MaxConnections   |-> 0,
         Expired          |-> FALSE]]

VARIABLES
    tracker,    \* the Tracker: users (username -> *UserUsage), month, and
                \* file, the contents of the file at filePath
    nowMonth,   \* the month time.Now() falls in
    rEngine,    \* request -> "none" | "http" | "socks"
    rName,      \* request -> the username as the client spelled it
    rMethod,    \* request -> "" | "CONNECT" | "GET"
    rPc,        \* request -> "idle" | "handle" | "request" | "relay" | "done"
    rOutcome,   \* request -> the branch that ended the policy checks
    rOut,       \* request -> what was written to the client, in order
    rDialed     \* request -> the handler has dialled the target

polVars == << tracker, nowMonth, rEngine, rName, rMethod, rPc, rOutcome, rOut, rDialed >>

NoUsage == [BytesUp |-> -1, BytesDown |-> -1, TotalBytes |-> -1, ActiveConns |-> -1]

ZeroUsage == [BytesUp |-> 0, BytesDown |-> 0, TotalBytes |-> 0, ActiveConns |-> 0]

\* an absent key of the file's "users" object, and a file that does not exist
NoJson == [bytes_up |-> -1, bytes_down |-> -1, total_bytes |-> -1, active_conns |-> -1]

NoFile == [month |-> -1, users |-> [k \in Spellings |-> NoJson]]

\* json.MarshalIndent of a UserUsage, by its json tags
Marshal(u) ==
    [bytes_up     |-> u.BytesUp,
     bytes_down   |-> u.BytesDown,
     total_bytes  |-> u.TotalBytes,
     active_conns |-> u.ActiveConns]

\* json.Unmarshal into a UserUsage
Unmarshal(j) ==
    [BytesUp     |-> j.bytes_up,
     BytesDown   |-> j.bytes_down,
     TotalBytes  |-> j.total_bytes,
     ActiveConns |-> j.active_conns]

\* what is left of a file whose rewriting stopped part-way: os.WriteFile
\* opens the path with O_TRUNC and then writes, so the file is empty or a
\* prefix of the JSON document, and json.Unmarshal fails on either
TruncatedFile == [month |-> -2, users |-> [k \in Spellings |-> NoJson]]

\* what os.WriteFile(t.filePath, data, 0644) does at present: "ok" writes
\* the whole document, "denied" fails to open the path, "full" fails in
\* Write after the file was truncated
DiskConditions == {"ok", "denied", "full"}

\* os.WriteFile(path, data, 0644) on a file holding f
WriteFile(f, data, condition) ==
    CASE condition = "ok"     -> data
      [] condition = "denied" -> f
      [] condition = "full"   -> TruncatedFile

\* the document json.MarshalIndent makes of t.month and t.users
Snapshot(t) ==
    [month |-> t.month,
     users |-> [k \in Spellings |->
                   IF t.users[k] = NoUsage THEN NoJson
                                           ELSE Marshal(t.users[k])]]

\* a faulty variant of SaveToDiskLocked: a failed write drops the counts
SaveToDiskLockedOrDrop(t) ==
    IF t.disk = "ok"
      THEN [t EXCEPT !.file = Snapshot(t)]
      ELSE [t EXCEPT !.users = [k \in Spellings |-> NoUsage]]

\* saveToDiskLocked(): the file is rewritten from t.month and t.users; an
\* error of os.WriteFile is logged and nothing else is done about it
SaveToDiskLocked(t) ==
    [t EXCEPT !.file = WriteFile(t.file, Snapshot(t), t.disk)]

\* a faulty variant of LoadFromDisk: the file is restored whatever its month
LoadFromDiskAnyMonth(t) ==
    IF t.file = NoFile \/ t.file = TruncatedFile
      THEN t
      ELSE [t EXCEPT !.users = [k \in Spellings |->
                                   IF t.file.users[k] = NoJson
                                     THEN NoUsage
                                     ELSE [Unmarshal(t.file.users[k])
                                              EXCEPT !.ActiveConns = 0]],
                     !.month = t.file.month]

\* loadFromDisk(): restore the file of the current month, with ActiveConns 0;
\* a file that cannot be read or cannot be parsed is left aside
LoadFromDisk(t) ==
    IF t.file = NoFile \/ t.file = TruncatedFile
      THEN t
      ELSE IF t.file.month = nowMonth
        THEN [t EXCEPT !.users = [k \in Spellings |->
                                     IF t.file.users[k] = NoJson
                                       THEN NoUsage
                                       ELSE [Unmarshal(t.file.users[k])
                                                EXCEPT !.ActiveConns = 0]],
                       !.month = t.file.month]
        ELSE t

\* NewTracker(filePath), the file holding f
NewTracker(f) ==
    LoadFromDisk([users |-> [k \in Spellings |-> NoUsage],
                  month |-> nowMonth,
                  file  |-> f,
                  disk  |-> "ok"])

PolInit ==
    /\ tracker = [users |-> [k \in Spellings |-> NoUsage], month |-> 0,
                  file |-> NoFile, disk |-> "ok"]
    /\ nowMonth = 0
    /\ rEngine = [r \in Reqs |-> "none"]
    /\ rName = [r \in Reqs |-> ""]
    /\ rMethod = [r \in Reqs |-> ""]
    /\ rPc = [r \in Reqs |-> "idle"]
    /\ rOutcome = [r \in Reqs |-> ""]
    /\ rOut = [r \in Reqs |-> << >>]
    /\ rDialed = [r \in Reqs |-> FALSE]

\* getOrCreate(username): the map key is the string as given
GetOrCreate(t, username) ==
    IF t.users[username] = NoUsage
      THEN [t EXCEPT !.users[username] = ZeroUsage]
      ELSE t

\* a faulty variant of CheckMonthlyReset: the month tag is left as it was
CheckMonthlyResetNoTag(t) ==
    IF nowMonth # t.month
      THEN SaveToDiskLocked(
               [t EXCEPT !.users = [k \in Spellings |->
                                       IF t.users[k] = NoUsage
                                         THEN NoUsage
                                         ELSE [t.users[k] EXCEPT !.BytesUp = 0,
                                                                 !.BytesDown = 0,
                                                                 !.TotalBytes = 0]]])
      ELSE t

\* checkMonthlyReset(): in a new month zero the byte counts of every entry,
\* set the month and save
CheckMonthlyReset(t) ==
    IF nowMonth # t.month
      THEN SaveToDiskLocked(
               [t EXCEPT !.users = [k \in Spellings |->
                                       IF t.users[k] = NoUsage
                                         THEN NoUsage
                                         ELSE [t.users[k] EXCEPT !.BytesUp = 0,
                                                                 !.BytesDown = 0,
                                                                 !.TotalBytes = 0]],
                         !.month = nowMonth])
      ELSE t

\* a faulty variant of RecordBytes: the total counts the upload only
RecordBytesUpOnly(t, username, up, down) ==
    LET t1 == GetOrCreate(CheckMonthlyReset(t), username)
    IN  [t1 EXCEPT !.users[username].BytesUp = @ + up,
                   !.users[username].BytesDown = @ + down,
                   !.users[username].TotalBytes = @ + up]

\* RecordBytes(username, up, down): the tracker afterwards
RecordBytes(t, username, up, down) ==
    LET t1 == GetOrCreate(CheckMonthlyReset(t), username)
    IN  [t1 EXCEPT !.users[username].BytesUp = @ + up,
                   !.users[username].BytesDown = @ + down,
                   !.users[username].TotalBytes = @ + up + down]

\* CheckAllowance(username, limitGB): the result and the tracker afterwards
CheckAllowance(t, username, limitGB) ==
    IF limitGB <= 0
      THEN [ok |-> TRUE, trk |-> t]
      ELSE LET t1 == GetOrCreate(CheckMonthlyReset(t), username)
           IN  [ok  |-> t1.users[username].TotalBytes < limitGB * MiBPerGiB,
                trk |-> t1]

\* CheckConnLimit(username, maxConns): the result and the tracker afterwards
CheckConnLimit(t, username, maxConns) ==
    IF maxConns <= 0
      THEN [ok |-> TRUE, trk |-> t]
      ELSE LET t1 == GetOrCreate(t, username)
           IN  [ok |-> t1.users[username].ActiveConns < maxConns, trk |-> t1]

\* IncrementConns(username)
IncrementConns(t, username) ==
    LET t1 == GetOrCreate(t, username)
    IN  [t1 EXCEPT !.users[username].ActiveConns = @ + 1]

\* DecrementConns(username)
DecrementConns(t, username) ==
    LET t1 == GetOrCreate(t, username)
    IN  IF t1.users[username].ActiveConns > 0
          THEN [t1 EXCEPT !.users[username].ActiveConns = @ - 1]
          ELSE t1

\* GetUser(username): the catalog entry under the folded name
GetUser(username) == Catalog[ToLower(username)]

\* CheckExpiry(username): the account has no expiry date in the past
CheckExpiry(username) == ~GetUser(username).Expired

\* CheckRateLimit(username): TRUE without a limit, else what Allow says
RateOutcomes(username) ==
    IF GetUser(username).RateLimitRPM <= 0 THEN {TRUE} ELSE BOOLEAN

\* the checks both engines make for a user who is not a verified
\* super_admin, with the spelling they pass to each: the branch taken and
\* the tracker afterwards
PolicyChecks(t, username, user, rateOK) ==
    IF ~rateOK
      THEN [outcome |-> "ratelimited", trk |-> t]
      ELSE IF ~CheckExpiry(username)
        THEN [outcome |-> "expired", trk |-> t]
        ELSE LET bw == CheckAllowance(t, username, user.BandwidthLimitGB)
                 cl == CheckConnLimit(bw.trk, username, user.MaxConnections)
             IN  IF ~bw.ok
                   THEN [outcome |-> "bandwidth", trk |-> bw.trk]
                   ELSE IF ~cl.ok
                     THEN [outcome |-> "connlimit", trk |-> cl.trk]
                     ELSE [outcome |-> "pass", trk |-> cl.trk]

\* the status handleRequest answers when a check fails
RefusalStatus(outcome) ==
    CASE outcome = "ratelimited" -> StatusTooManyRequests
      [] outcome = "expired"     -> StatusForbidden
      [] outcome = "bandwidth"   -> StatusForbidden
      [] outcome = "connlimit"   -> StatusTooManyRequests

\* requests arrive in the order of their numbers
Arrives(r) ==
    /\ rPc[r] = "idle"
    /\ \A b \in Reqs : b < r => rPc[b] # "idle"

\* httpproxy handleRequest, up to the call of handleConnect or handleHTTP
HttpHandleRequest(r, name, method, credOK, adminIP, rateOK) ==
    /\ Arrives(r)
    /\ rateOK \in RateOutcomes(name)
    /\ rEngine' = [rEngine EXCEPT ![r] = "http"]
    /\ rName' = [rName EXCEPT ![r] = name]
    /\ rMethod' = [rMethod EXCEPT ![r] = method]
    /\ IF ~credOK
         THEN /\ rOutcome' = [rOutcome EXCEPT ![r] = "authfail"]
              /\ rOut' = [rOut EXCEPT ![r] = << Status(StatusProxyAuthRequired) >>]
              /\ rPc' = [rPc EXCEPT ![r] = "done"]
              /\ UNCHANGED tracker
         ELSE LET user         == GetUser(name)
                  isSuperAdmin == user.Role = "super_admin" /\ adminIP
                  chk          == IF isSuperAdmin
                                    THEN [outcome |-> "pass", trk |-> tracker]
                                    ELSE PolicyChecks(tracker, name, user, rateOK)
              IN  IF chk.outcome = "pass"
                    THEN /\ tracker' = IncrementConns(chk.trk, user.Username)
                         /\ rOutcome' = [rOutcome EXCEPT ![r] = "pass"]
                         /\ rPc' = [rPc EXCEPT ![r] = "handle"]
                         /\ UNCHANGED rOut
                    ELSE /\ tracker' = chk.trk
                         /\ rOutcome' = [rOutcome EXCEPT ![r] = chk.outcome]
                         /\ rOut' = [rOut EXCEPT ![r] =
                                        << Status(RefusalStatus(chk.outcome)) >>]
                         /\ rPc' = [rPc EXCEPT ![r] = "done"]
    /\ UNCHANGED << nowMonth, rDialed >>

\* handleConnect or handleHTTP, and the deferred DecrementConns
HttpHandle(r, dialOK, up, down) ==
    /\ rPc[r] = "handle"
    /\ rEngine[r] = "http"
    /\ rMethod[r] = "GET" => up = 0
    /\ ~dialOK => (up = 0 /\ down = 0)
    /\ LET user == GetUser(rName[r])
       IN  tracker' = DecrementConns(
                          IF dialOK
                            THEN RecordBytes(tracker, user.Username, up, down)
                            ELSE tracker,
                          user.Username)
    /\ rOut' = [rOut EXCEPT ![r] =
                   << Status(IF dialOK THEN StatusOK ELSE StatusBadGateway) >>]
    /\ rDialed' = [rDialed EXCEPT ![r] = TRUE]
    /\ rPc' = [rPc EXCEPT ![r] = "done"]
    /\ UNCHANGED << nowMonth, rEngine, rName, rMethod, rOutcome >>

\* socks5 handleConnection, up to the call of handleRequest
SocksHandleConnection(r, name, credOK, adminIP, rateOK) ==
    /\ Arrives(r)
    /\ rateOK \in RateOutcomes(name)
    /\ rEngine' = [rEngine EXCEPT ![r] = "socks"]
    /\ rName' = [rName EXCEPT ![r] = name]
    /\ IF ~credOK
         THEN /\ rOutcome' = [rOutcome EXCEPT ![r] = "authfail"]
              /\ rOut' = [rOut EXCEPT ![r] =
                             << Method(MethodUserPass), AuthStatus(1) >>]
              /\ rPc' = [rPc EXCEPT ![r] = "done"]
              /\ UNCHANGED tracker
         ELSE LET user         == GetUser(name)
                  isSuperAdmin == user.Role = "super_admin" /\ adminIP
                  chk          == IF isSuperAdmin
                                    THEN [outcome |-> "pass", trk |-> tracker]
                                    ELSE PolicyChecks(tracker, name, user, rateOK)
              IN  /\ rOut' = [rOut EXCEPT ![r] =
                                 << Method(MethodUserPass), AuthStatus(0) >>]
                  /\ rOutcome' = [rOutcome EXCEPT ![r] = chk.outcome]
                  /\ IF chk.outcome = "pass"
                       THEN /\ tracker' = IncrementConns(chk.trk, name)
                            /\ rPc' = [rPc EXCEPT ![r] = "request"]
                       ELSE /\ tracker' = chk.trk
                            /\ rPc' = [rPc EXCEPT ![r] = "done"]
    /\ UNCHANGED << nowMonth, rMethod, rDialed >>

\* socks5 handleRequest and the dial: res is "readerr", "cmd", "atyp",
\* "dialfail" or "ok"
SocksRequest(r, res) ==
    /\ rPc[r] = "request"
    /\ rEngine[r] = "socks"
    /\ rDialed' = [rDialed EXCEPT ![r] = res \in {"dialfail", "ok"}]
    /\ rOut' = [rOut EXCEPT ![r] =
                   CASE res = "readerr"  -> @
                     [] res = "cmd"      -> Append(@, Reply(ReplyCmdNotSupported))
                     [] res = "atyp"     -> Append(@, Reply(ReplyAddrTypeNotSupported))
                     [] res = "dialfail" -> Append(@, Reply(ReplyHostUnreachable))
                     [] res = "ok"       -> Append(@, Reply(ReplySucceeded))]
    /\ IF res = "ok"
         THEN /\ rPc' = [rPc EXCEPT ![r] = "relay"]
              /\ UNCHANGED tracker
         ELSE /\ rPc' = [rPc EXCEPT ![r] = "done"]
              /\ tracker' = DecrementConns(tracker, rName[r])
    /\ UNCHANGED << nowMonth, rEngine, rName, rMethod, rOutcome >>

\* the end of the SOCKS5 relay: RecordBytes and the deferred DecrementConns
SocksRelayEnd(r, up, down) ==
    /\ rPc[r] = "relay"
    /\ rEngine[r] = "socks"
    /\ tracker' = DecrementConns(RecordBytes(tracker, rName[r], up, down), rName[r])
    /\ rPc' = [rPc EXCEPT ![r] = "done"]
    /\ UNCHANGED << nowMonth, rEngine, rName, rMethod, rOutcome, rOut, rDialed >>

\* a new month begins
MonthTick ==
    /\ nowMonth < MaxMonth
    /\ nowMonth' = nowMonth + 1
    /\ UNCHANGED << tracker, rEngine, rName, rMethod, rPc, rOutcome, rOut, rDialed >>

\* ------------------------------------------------------------------------
\* The tracker by itself: its operations as the engines, the background
\* loop and a restart of the process call them
\* ------------------------------------------------------------------------

\* operations made on the tracker in one run
MaxOps == 4

VARIABLES
    nOps,       \* operations made so far
    lastOp,     \* the last operation: its kind and arguments
    zeroings    \* month -> times checkMonthlyReset zeroed the counts in it

trkVars == << nOps, lastOp, zeroings >>

Op(kind, user, up, down) == [kind |-> kind, user |-> user, up |-> up, down |-> down]

TrkInit ==
    /\ nOps = 0
    /\ lastOp = Op("none", "", 0, 0)
    /\ zeroings = [m \in 0 .. MaxMonth + 1 |-> 0]

\* one more operation, counted as a zeroing when it runs checkMonthlyReset
\* in a month that is not the tracker's
TrkOp(op, resets) ==
    /\ nOps < MaxOps
    /\ nOps' = nOps + 1
    /\ lastOp' = op
    /\ zeroings' = IF resets /\ nowMonth # tracker.month
                     THEN [zeroings EXCEPT ![nowMonth] = @ + 1]
                     ELSE zeroings
    /\ UNCHANGED << nowMonth, rEngine, rName, rMethod, rPc, rOutcome, rOut, rDialed >>

\* RecordBytes(u, up, down)
TrkRecord(u, up, down) ==
    /\ TrkOp(Op("record", u, up, down), TRUE)
    /\ tracker' = RecordBytes(tracker, u, up, down)

\* CheckAllowance(u, limitGB)
TrkCheck(u, limitGB) ==
    /\ TrkOp(Op("check", u, limitGB, 0), limitGB > 0)
    /\ tracker' = CheckAllowance(tracker, u, limitGB).trk

\* IncrementConns(u) or DecrementConns(u)
TrkConns(u, kind) ==
    /\ TrkOp(Op(kind, u, 0, 0), FALSE)
    /\ tracker' = CASE kind = "inc" -> IncrementConns(tracker, u)
                    [] kind = "dec" -> DecrementConns(tracker, u)

\* saveToDisk(), from backgroundLoop's ticker or from Stop
TrkSave ==
    /\ TrkOp(Op("save", "", 0, 0), FALSE)
    /\ tracker' = SaveToDiskLocked(tracker)

\* the process ends and a new one calls NewTracker with the same file path
TrkRestart ==
    /\ TrkOp(Op("restart", "", 0, 0), FALSE)
    /\ tracker' = [NewTracker(tracker.file) EXCEPT !.disk = tracker.disk]

\* the disk begins or ceases to refuse the writes of the usage file
DiskChange(condition) ==
    /\ condition # tracker.disk
    /\ tracker' = [tracker EXCEPT !.disk = condition]
    /\ UNCHANGED << nowMonth, rEngine, rName, rMethod, rPc, rOutcome, rOut, rDialed >>
    /\ UNCHANGED trkVars

\* the process is killed inside the os.WriteFile of saveToDiskLocked, after
\* the file was truncated and before its bytes were all written, and a new
\* process calls NewTracker with the same file path
TrkCrashInSave ==
    /\ TrkOp(Op("crash", "", 0, 0), FALSE)
    /\ tracker' = [NewTracker(TruncatedFile) EXCEPT !.disk = tracker.disk]

\* the result and the tracker after the operation op on the tracker t
Applied(t, op) ==
    CASE op.kind = "record" ->
             [ok |-> TRUE, trk |-> RecordBytes(t, op.user, op.up, op.down)]
      [] op.kind = "check"  -> CheckAllowance(t, op.user, op.up)
      [] op.kind = "inc"    -> [ok |-> TRUE, trk |-> IncrementConns(t, op.user)]
      [] op.kind = "dec"    -> [ok |-> TRUE, trk |-> DecrementConns(t, op.user)]
      [] op.kind = "save"   -> [ok |-> TRUE, trk |-> SaveToDiskLocked(t)]

\* ------------------------------------------------------------------------
\* The inner ClientHello: extractSNI over byte strings
\* ------------------------------------------------------------------------

\* data[i] of a Go slice; an index outside the slice panics in the program
\* and is told here by the set of indices ExtractSNI returns
Byte(data, i) == IF i >= 0 /\ i < Len(data) THEN data[i + 1] ELSE 0

\* int(data[i])<<8 | int(data[i+1])
U16(data, i) == Byte(data, i) * 256 + Byte(data, i + 1)

\* data[a:b]
Slice(data, a, b) == [i \in 1 .. b - a |-> Byte(data, a + i - 1)]

\* what extractSNI returns, with the indices of data it has read
Result(sni, reads) == [sni |-> sni, reads |-> reads]

\* a faulty variant of EndPos: the end of the extensions is not clamped
EndPosUnclamped(pos, extensionsLen, len) == pos + extensionsLen

\* endPos := pos + extensionsLen; if endPos > len(data) { endPos = len(data) }
EndPos(pos, extensionsLen, len) ==
    IF pos + extensionsLen > len THEN len ELSE pos + extensionsLen

\* a faulty variant of SkipExtension: the extension's data is not skipped
SkipExtensionHeaderOnly(pos, extLen) == pos

\* pos += extLen
SkipExtension(pos, extLen) == pos + extLen

\* the loop over the extensions, from pos (just before an extension header)
RECURSIVE ScanExtensions(_, _, _, _)
ScanExtensions(data, pos, endPos, reads) ==
    IF pos + 4 <= endPos
      THEN LET extType == U16(data, pos)
               extLen  == U16(data, pos + 2)
               p       == pos + 4
               r1      == reads \cup (pos .. pos + 3)
           IN  IF extType = 0
                 THEN IF p + 5 > endPos
                        THEN Result(<< >>, r1)
                        ELSE IF Byte(data, p + 2) # 0
                          THEN Result(<< >>, r1 \cup {p + 2})
                          ELSE LET nameLen == U16(data, p + 3)
                                   r2      == r1 \cup {p + 2, p + 3, p + 4}
                               IN  IF p + 5 + nameLen > endPos
                                     THEN Result(<< >>, r2)
                                     ELSE Result(Slice(data, p + 5, p + 5 + nameLen),
                                                 r2 \cup (p + 5 .. p + 4 + nameLen))
                 ELSE ScanExtensions(data, SkipExtension(p, extLen), endPos, r1)
      ELSE Result(<< >>, reads)

\* extractSNI(data)
ExtractSNI(data) ==
    IF Len(data) < 5 THEN Result(<< >>, {})
    ELSE IF Byte(data, 0) # 22 THEN Result(<< >>, {0})
    ELSE IF Len(data) < 5 + 4 THEN Result(<< >>, {0})
    ELSE IF Byte(data, 5) # 1 THEN Result(<< >>, {0, 5})
    ELSE IF Len(data) < 9 + 34 THEN Result(<< >>, {0, 5})
    ELSE IF Len(data) < 43 + 1 THEN Result(<< >>, {0, 5})
    ELSE
      LET sessionIDLen == Byte(data, 43)
          pos1         == 43 + 1 + sessionIDLen
      IN  IF Len(data) < pos1 + 2 THEN Result(<< >>, {0, 5, 43})
          ELSE
            LET cipherSuitesLen == U16(data, pos1)
                pos2            == pos1 + 2 + cipherSuitesLen
                r2              == {0, 5, 43, pos1, pos1 + 1}
            IN  IF Len(data) < pos2 + 1 THEN Result(<< >>, r2)
                ELSE
                  LET compressionLen == Byte(data, pos2)
                      pos3           == pos2 + 1 + compressionLen
                      r3             == r2 \cup {pos2}
                  IN  IF Len(data) < pos3 + 2 THEN Result(<< >>, r3)
                      ELSE
                        LET extensionsLen == U16(data, pos3)
                            pos4          == pos3 + 2
                        IN  ScanExtensions(data, pos4,
                                           EndPos(pos4, extensionsLen, Len(data)),
                                           r3 \cup {pos3, pos3 + 1})

\* the two bytes of a 16-bit length, and n bytes of value b
U16Bytes(n) == << n \div 256, n % 256 >>

Fill(n, b) == [i \in 1 .. n |-> b]

\* one extension: type, length, data
Extension(type, body) == U16Bytes(type) \o U16Bytes(Len(body)) \o body

\* the server_name extension with the one host_name h
ServerName(h) ==
    Extension(0, U16Bytes(Len(h) + 3) \o << 0 >> \o U16Bytes(Len(h)) \o h)

\* a TLS record holding a ClientHello with session id sid, cipher suites cs,
\* compression methods comp and the extensions exts
ClientHello(sid, cs, comp, exts) ==
    LET body == << 3, 3 >> \o Fill(32, 22)
                   \o << Len(sid) >> \o sid
                   \o U16Bytes(Len(cs)) \o cs
                   \o << Len(comp) >> \o comp
                   \o U16Bytes(Len(exts)) \o exts
        hs   == << 1, 0 >> \o U16Bytes(Len(body)) \o body
    IN  << 22, 3, 1 >> \o U16Bytes(Len(hs)) \o hs

\* the ClientHellos clients send: with and without a session id, cipher
\* suites, compression methods and an extension before server_name
SessionIds == {<< >>, << 7 >>}
CipherSuites == {<< >>, << 19, 1 >>}
Compressions == {<< >>, << 0 >>}
Preceding == {<< >>, Extension(10, << 29 >>)}
HostNames == {<< 97 >>, << 65, 98 >>}

\* the values a byte of the record is replaced by
Pokes == {0, 1, 22, 255}

VARIABLES
    data,       \* the bytes given to extractSNI
    hello,      \* how the ClientHello was made: sid, cs, comp, pre, h
    sniPc,      \* "empty" | "composed" | "poked" | "cut" | "extracted"
    changed,    \* "no" | "poked" | "cut" | "both": what was done to the record
    extracted   \* what extractSNI returned

sniVars == << data, hello, sniPc, changed, extracted >>

SniInit ==
    /\ data = << >>
    /\ hello = [sid |-> << >>, cs |-> << >>, comp |-> << >>, pre |-> << >>, h |-> << >>]
    /\ sniPc = "empty"
    /\ changed = "no"
    /\ extracted = Result(<< >>, {})

\* a client builds a well-formed ClientHello record
Compose(sid, cs, comp, pre, h) ==
    /\ sniPc = "empty"
    /\ data' = ClientHello(sid, cs, comp, pre \o ServerName(h))
    /\ hello' = [sid |-> sid, cs |-> cs, comp |-> comp, pre |-> pre, h |-> h]
    /\ sniPc' = "composed"
    /\ UNCHANGED << changed, extracted >>

\* one byte outside the random is replaced
Poke(i, b) ==
    /\ sniPc = "composed"
    /\ i \in 1 .. Len(data)
    /\ i < 12 \/ i > 43
    /\ data[i] # b
    /\ data' = [data EXCEPT ![i] = b]
    /\ changed' = "poked"
    /\ sniPc' = "poked"
    /\ UNCHANGED << hello, extracted >>

\* only the first n bytes of the record arrive
Cut(n) ==
    /\ sniPc \in {"composed", "poked"}
    /\ n \in 0 .. Len(data) - 1
    /\ data' = SubSeq(data, 1, n)
    /\ changed' = IF changed = "poked" THEN "both" ELSE "cut"
    /\ sniPc' = "cut"
    /\ UNCHANGED << hello, extracted >>

\* extractSNI(data)
Extract ==
    /\ sniPc \in {"composed", "poked", "cut"}
    /\ extracted' = ExtractSNI(data)
    /\ sniPc' = "extracted"
    /\ UNCHANGED << data, hello, changed >>

\* ------------------------------------------------------------------------
\* HandleConnection of the Signal engine, byte by byte: PeekSNI, the lookup
\* in cfg.Hosts, the dial, the forwarded ClientHello and the relay
\* ------------------------------------------------------------------------

\* cfg.Hosts: SNI -> target
Hosts == [k \in {<< 97 >>} |-> "signal:443"]

\* strings.ToLower, on ASCII bytes
LowerBytes(str) == [i \in 1 .. Len(str) |-> IF str[i] >= 65 /\ str[i] <= 90
                                              THEN str[i] + 32
                                              ELSE str[i]]

\* a faulty variant of Lookup: every name is allowed
LookupAny(key) ==
    [target |-> IF key \in DOMAIN Hosts THEN Hosts[key] ELSE "", allowed |-> TRUE]

\* target, allowed := cfg.Hosts[key]
Lookup(key) ==
    IF key \in DOMAIN Hosts THEN [target |-> Hosts[key], allowed |-> TRUE]
                            ELSE [target |-> "", allowed |-> FALSE]

\* a faulty variant of Written: the bytes are put in front of what was sent
WrittenInFront(received, bytes) == bytes \o received

\* dst.Write(bytes): what the peer has received afterwards
Written(received, bytes) == received \o bytes

\* a faulty variant of ReadChunk: the read starts over at the first byte
ReadChunkFromStart(stream, from, m) == SubSeq(stream, 1, m)

\* src.Read(buf) returning m bytes, from bytes of the stream having been read
ReadChunk(stream, from, m) == SubSeq(stream, from + 1, from + m)

\* the names clients put in server_name: allowed, allowed in another case,
\* not allowed, empty
InnerNames == {<< 97 >>, << 65 >>, << 98 >>, << >>}

\* what the client sends after its first message, and what the upstream
\* answers
AppData == << 23, 42 >>
Response == << 200, 201 >>

ErrorTypes == {"peek_failed", "unauthorized_sni", "dial_failed", "write_failed"}

VARIABLES
    inPc,         \* "idle" | "peek" | "dial" | "write" | "relay" | "closed"
    cStream,      \* all the bytes the client sends on the connection
    cHost,        \* the host name the client put in server_name
    cRead,        \* bytes of cStream the proxy has read
    initialData,  \* the bytes PeekSNI's one Read returned
    inSni,        \* sni, as PeekSNI returned it
    upDialed,     \* the address DialContext was called with ("": no call)
    upRecv,       \* the bytes the upstream has received
    uRead,        \* bytes of Response the proxy has read
    cRecv,        \* the bytes the client has received
    inErrors,     \* MetricErrorsTotal: type -> count
    inApi,        \* handleInternalAPI was called
    exited,       \* the copyData goroutines that have returned
    inCancelled   \* ctx is cancelled

inVars == << inPc, cStream, cHost, cRead, initialData, inSni, upDialed, upRecv,
             uRead, cRecv, inErrors, inApi, exited, inCancelled >>

InInit ==
    /\ inPc = "idle"
    /\ cStream = << >>
    /\ cHost = << >>
    /\ cRead = 0
    /\ initialData = << >>
    /\ inSni = << >>
    /\ upDialed = ""
    /\ upRecv = << >>
    /\ uRead = 0
    /\ cRecv = << >>
    /\ inErrors = [t \in ErrorTypes |-> 0]
    /\ inApi = FALSE
    /\ exited = {}
    /\ inCancelled = FALSE

\* a client connects: a Signal client with an inner ClientHello naming h, or
\* a browser sending an HTTP request
InConnect(kind, h) ==
    /\ inPc = "idle"
    /\ kind = "http" => h = << >>
    /\ cStream' = (IF kind = "tls"
                     THEN ClientHello(<< >>, << 19, 1 >>, << 0 >>,
                                      ServerName(h) \o Extension(43, << 3, 4 >>))
                     ELSE << 71, 69, 84 >>) \o AppData
    /\ cHost' = h
    /\ inPc' = "peek"
    /\ UNCHANGED << cRead, initialData, inSni, upDialed, upRecv, uRead, cRecv,
                    inErrors, inApi, exited, inCancelled >>

\* the handler returns: the deferred Close calls
InReturn(type) ==
    /\ inPc' = "closed"
    /\ inErrors' = IF type = "" THEN inErrors
                                ELSE [inErrors EXCEPT ![type] = @ + 1]

\* PeekSNI fails: the 10 s deadline passes or the client closes
InPeekFail ==
    /\ inPc = "peek"
    /\ InReturn("peek_failed")
    /\ UNCHANGED << cStream, cHost, cRead, initialData, inSni, upDialed, upRecv,
                    uRead, cRecv, inApi, exited, inCancelled >>

\* PeekSNI's Read returns the first n bytes of the stream; the lookup and
\* what follows it up to the dial
InPeek(n) ==
    /\ inPc = "peek"
    /\ n \in 1 .. Len(cStream)
    /\ LET read == ReadChunk(cStream, 0, n)
           sni  == ExtractSNI(read).sni
           look == Lookup(LowerBytes(sni))
       IN  /\ initialData' = read
           /\ cRead' = n
           /\ inSni' = sni
           /\ IF ~look.allowed \/ sni = << >>
                THEN IF read[1] # 22
                       THEN /\ inApi' = TRUE
                            /\ InReturn("")
                       ELSE /\ InReturn("unauthorized_sni")
                            /\ UNCHANGED inApi
                ELSE /\ inPc' = "dial"
                     /\ UNCHANGED << inErrors, inApi >>
    /\ UNCHANGED << cStream, cHost, upDialed, upRecv, uRead, cRecv, exited,
                    inCancelled >>

\* DialContext(ctx, "tcp", target)
InDial(ok) ==
    /\ inPc = "dial"
    /\ inCancelled => ~ok
    /\ upDialed' = Lookup(LowerBytes(inSni)).target
    /\ IF ok THEN inPc' = "write" /\ UNCHANGED inErrors
             ELSE InReturn("dial_failed")
    /\ UNCHANGED << cStream, cHost, cRead, initialData, inSni, upRecv, uRead,
                    cRecv, inApi, exited, inCancelled >>

\* upConn.Write(initialData) writes all of it, and the relay starts
InWrite ==
    /\ inPc = "write"
    /\ upRecv' = Written(upRecv, initialData)
    /\ inPc' = "relay"
    /\ UNCHANGED << cStream, cHost, cRead, initialData, inSni, upDialed, uRead,
                    cRecv, inErrors, inApi, exited, inCancelled >>

\* upConn.Write(initialData) fails after k bytes
InWriteFail(k) ==
    /\ inPc = "write"
    /\ k \in 0 .. Len(initialData) - 1
    /\ upRecv' = Written(upRecv, SubSeq(initialData, 1, k))
    /\ InReturn("write_failed")
    /\ UNCHANGED << cStream, cHost, cRead, initialData, inSni, upDialed, uRead,
                    cRecv, inApi, exited, inCancelled >>

\* copyData(upConn, clientConn): one Read of m bytes and its Write
InCopyUp(m) ==
    /\ inPc = "relay"
    /\ "up" \notin exited
    /\ m \in 1 .. Len(cStream) - cRead
    /\ upRecv' = Written(upRecv, ReadChunk(cStream, cRead, m))
    /\ cRead' = cRead + m
    /\ UNCHANGED << inPc, cStream, cHost, initialData, inSni, upDialed, uRead,
                    cRecv, inErrors, inApi, exited, inCancelled >>

\* copyData(clientConn, upConn): one Read of m bytes and its Write; the
\* upstream answers once it has the whole stream
InCopyDown(m) ==
    /\ inPc = "relay"
    /\ "down" \notin exited
    /\ upRecv = cStream
    /\ m \in 1 .. Len(Response) - uRead
    /\ cRecv' = Written(cRecv, ReadChunk(Response, uRead, m))
    /\ uRead' = uRead + m
    /\ UNCHANGED << inPc, cStream, cHost, cRead, initialData, inSni, upDialed,
                    upRecv, inErrors, inApi, exited, inCancelled >>

\* a copyData goroutine returns: EOF, an error, the read deadline or ctx
InCopyExit(dir) ==
    /\ inPc = "relay"
    /\ dir \notin exited
    /\ exited' = exited \cup {dir}
    /\ UNCHANGED << inPc, cStream, cHost, cRead, initialData, inSni, upDialed,
                    upRecv, uRead, cRecv, inErrors, inApi, inCancelled >>

\* the supervisor cancels ctx
InCancel ==
    /\ inPc \notin {"idle", "closed"}
    /\ ~inCancelled
    /\ inCancelled' = TRUE
    /\ UNCHANGED << inPc, cStream, cHost, cRead, initialData, inSni, upDialed,
                    upRecv, uRead, cRecv, inErrors, inApi, exited >>

\* select { case <-done: case <-ctx.Done(): } and the return
InRelayEnd ==
    /\ inPc = "relay"
    /\ exited # {} \/ inCancelled
    /\ InReturn("")
    /\ UNCHANGED << cStream, cHost, cRead, initialData, inSni, upDialed, upRecv,
                    uRead, cRecv, inApi, exited, inCancelled >>

\* ------------------------------------------------------------------------
\* The identity catalog (auth.UserStore.LoadFromFile and its readers) and
\* the admission checks of the HTTP proxy's handleRequest
\* ------------------------------------------------------------------------

\* requests the HTTP proxy handles at a time
NumHttp == 2

HttpSlots == 1 .. NumHttp

\* remote addresses of clients: the first lies in 10.0.0.0/8, the second in
\* 192.0.2.0/24, the third in neither
ClientIPs == {"10.0.0.1", "192.0.2.7", "203.0.113.9"}

\* parseCIDR(cidr): "bogus" is neither a CIDR nor an IP
ParseCIDR(cidr) == [ok |-> cidr # "bogus", net |-> cidr]

\* (*net.IPNet).Contains(ip)
Contains(net, ip) ==
    \/ net = "10.0.0.0/8" /\ ip = "10.0.0.1"
    \/ net = "192.0.2.0/24" /\ ip = "192.0.2.7"

\* strings.ToLower(user.Role)
RoleToLower(role) == IF role = "Super_Admin" THEN "super_admin" ELSE role

\* a User of the catalog file; Password stands for the password the
\* PasswordHash was made from, Expired for an expiry date in the past
UserRecord(name, role, pw, rpm, enabled, gb, conns, expired) ==
    [Username         |-> name,
     Role             |-> role,
     Password         |-> pw,
     RateLimitRPM     |-> rpm,
     Enabled          |-> enabled,
     BandwidthLimitGB |-> gb,
     MaxConnections   |-> conns,
     Expired          |-> expired]

\* a nil *User
NilUser == UserRecord("", "", "", 0, FALSE, 0, 0, FALSE)

\* the users file: whether os.ReadFile and json.Unmarshal succeed, and the
\* UsersConfig it holds
UsersFile(readable, wellFormed, list, whitelist, admins) ==
    [readable      |-> readable,
     wellFormed    |-> wellFormed,
     Users         |-> list,
     IPWhitelist   |-> whitelist,
     SuperAdminIPs |-> admins]

VARIABLES
    store,      \* the UserStore: users, superAdminUser, ipWhitelist,
                \* superAdminIPs, credCache
    lastLoad,   \* the last LoadFromFile observed: the file, the error it
                \* returned, the store and the limiter before the call
    hConn,      \* HTTP request slot -> pc ("idle" | "forward") and the
                \* Username of the user counted by IncrementConns
    hReq        \* the last request handleRequest answered: its inputs, the
                \* verdict of every check on the state it found, the checks
                \* it called and its answer

gateVars == << store, lastLoad, hConn, hReq >>

\* the UserStore NewUserStore makes before its first load
EmptyStore ==
    [users          |-> [n \in LowerNames |-> NilUser],
     superAdminUser |-> NilUser,
     ipWhitelist    |-> << >>,
     superAdminIPs  |-> << >>,
     credCache      |-> {}]

\* the limiter as a value: r.buckets and r.limits
Limiter == [buckets |-> buckets, limits |-> limits]

\* SetLimit(u, rpm) on a limiter value at the present time
WithLimit(lim, u, rpm) ==
    [buckets |-> [lim.buckets EXCEPT ![u] =
                     [tokens     |-> MaxTokens(rpm),
                      maxTokens  |-> MaxTokens(rpm),
                      refillRate |-> (rpm * RateScale) \div 60,
                      lastRefill |-> rateNow]],
     limits  |-> [lim.limits EXCEPT ![u] = rpm]]

\* Allow(u) on a limiter value: the answer and the limiter afterwards
AllowIn(lim, u) ==
    IF lim.buckets[u] = NoBucket
      THEN [ok |-> TRUE, limiter |-> lim]
      ELSE LET bucket   == lim.buckets[u]
               refilled == Refilled(bucket)
               ok       == HasToken(refilled)
           IN  [ok      |-> ok,
                limiter |-> [lim EXCEPT !.buckets[u] =
                                [bucket EXCEPT
                                    !.tokens = IF ok THEN refilled - RateScale
                                                     ELSE refilled,
                                    !.lastRefill = rateNow]]]

\* s.users[strings.ToLower(user.Username)] = user
InstallUser(m, user) == [m EXCEPT ![ToLower(user.Username)] = user]

RECURSIVE LoadUsers(_, _, _)
\* LoadFromFile's loop over cfg.Users from index i: the user map and the
\* limiter when the loop ends
LoadUsers(acc, list, i) ==
    IF i > Len(list)
      THEN acc
      ELSE LET user == list[i]
           IN  LoadUsers(
                   IF user.Enabled
                     THEN [users   |-> InstallUser(acc.users, user),
                           limiter |-> IF user.RateLimitRPM > 0
                                         THEN WithLimit(acc.limiter, user.Username,
                                                        user.RateLimitRPM)
                                         ELSE acc.limiter]
                     ELSE acc,
                   list, i + 1)

RECURSIVE ParseCIDRs(_, _, _)
\* LoadFromFile's loops over the CIDR strings from index i: the slice as it
\* stands when the loop ends or returns, and whether every entry parsed
ParseCIDRs(nets, list, i) ==
    IF i > Len(list)
      THEN [ok |-> TRUE, nets |-> nets]
      ELSE IF ~ParseCIDR(list[i]).ok
        THEN [ok |-> FALSE, nets |-> nets]
        ELSE ParseCIDRs(Append(nets, ParseCIDR(list[i]).net), list, i + 1)

\* the super_admin of a user map (the map of the model has one key)
SuperAdminOf(m) ==
    IF \E n \in LowerNames : RoleToLower(m[n].Role) = "super_admin"
      THEN m[CHOOSE n \in LowerNames : RoleToLower(m[n].Role) = "super_admin"]
      ELSE NilUser

\* LoadFromFile(path), the file holding cfg: the error returned, the store
\* and the limiter afterwards
LoadFromFile(s, lim, cfg) ==
    IF ~cfg.readable
      THEN [err |-> "read", store |-> s, limiter |-> lim]
      ELSE IF ~cfg.wellFormed
        THEN [err |-> "parse", store |-> s, limiter |-> lim]
        ELSE LET lu == LoadUsers([users   |-> [n \in LowerNames |-> NilUser],
                                  limiter |-> lim], cfg.Users, 1)
                 wl == ParseCIDRs(<< >>, cfg.IPWhitelist, 1)
                 sa == ParseCIDRs(<< >>, cfg.SuperAdminIPs, 1)
                 s1 == [s EXCEPT !.users = lu.users,
                                 !.superAdminUser = SuperAdminOf(lu.users),
                                 !.ipWhitelist = wl.nets]
                 s2 == [s1 EXCEPT !.superAdminIPs = sa.nets]
             IN  IF ~wl.ok
                   THEN [err |-> "whitelist", store |-> s1, limiter |-> lu.limiter]
                   ELSE IF ~sa.ok
                     THEN [err |-> "super_admin_ips", store |-> s2,
                           limiter |-> lu.limiter]
                     ELSE [err     |-> "",
                           store   |-> [s2 EXCEPT !.credCache = {}],
                           limiter |-> lu.limiter]

\* the users file the process starts with: one plain user without limits,
\* every client address allowed, 10.0.0.0/8 trusted
PlainUser == UserRecord("bob", "user", "pw1", 0, TRUE, 0, 0, FALSE)

FirstFile == UsersFile(TRUE, TRUE, << PlainUser >>, << >>, << "10.0.0.0/8" >>)

\* a load that the observer does not record
NoLoad == [cfg |-> FirstFile, err |-> "none", store |-> EmptyStore,
           limiter |-> [buckets |-> [u \in Spellings |-> NoBucket],
                        limits  |-> [u \in Spellings |-> 0]]]

NoRequest ==
    [ip |-> "", present |-> FALSE, verdict |-> << >>, evaluated |-> << >>,
     code |-> 0, body |-> "", authenticate |-> FALSE, forward |-> FALSE,
     tokens |-> 0]

GateInit ==
    /\ store = LoadFromFile(EmptyStore,
                            [buckets |-> [u \in Spellings |-> NoBucket],
                             limits  |-> [u \in Spellings |-> 0]],
                            FirstFile).store
    /\ lastLoad = NoLoad
    /\ hConn = [h \in HttpSlots |-> [pc |-> "idle", user |-> ""]]
    /\ hReq = NoRequest

\* a reload of the users file while the engines run
Load(cfg) ==
    LET res == LoadFromFile(store, Limiter, cfg)
    IN  /\ store' = res.store
        /\ buckets' = res.limiter.buckets
        /\ limits' = res.limiter.limits
        /\ UNCHANGED << rateNow, allowed >>

\* CheckIPAllowed(ipStr)
CheckIPAllowed(s, ip) ==
    IF Len(s.ipWhitelist) = 0
      THEN TRUE
      ELSE \E i \in 1 .. Len(s.ipWhitelist) : Contains(s.ipWhitelist[i], ip)

\* IsSuperAdminIP(ipStr): the second result
IsSuperAdminIP(s, ip) ==
    IF s.superAdminUser = NilUser \/ Len(s.superAdminIPs) = 0
      THEN FALSE
      ELSE \E i \in 1 .. Len(s.superAdminIPs) : Contains(s.superAdminIPs[i], ip)

\* the cached entry for the key username:sha256(password), NilUser if none
Cached(s, username, password) ==
    IF \E e \in s.credCache : e.key = << ToLower(username), password >>
      THEN (CHOOSE e \in s.credCache : e.key = << ToLower(username), password >>).user
      ELSE NilUser

\* ValidateCredentials(username, password) in one piece: the user, whether
\* the credentials are valid, and the store with the cache entry added
ValidateCredentials(s, username, password) ==
    IF Cached(s, username, password) # NilUser
      THEN [user |-> Cached(s, username, password), valid |-> TRUE, store |-> s]
      ELSE LET user == s.users[ToLower(username)]
           IN  IF user = NilUser \/ user.Password # password
                 THEN [user |-> NilUser, valid |-> FALSE, store |-> s]
                 ELSE [user  |-> user,
                       valid |-> TRUE,
                       store |-> [s EXCEPT !.credCache =
                                     @ \cup {[key  |-> << ToLower(username), password >>,
                                              user |-> user]}]]

\* UserStore.GetUser(username): nil when the map has no such key
StoreGetUser(s, username) == s.users[ToLower(username)]

\* UserStore.CheckExpiry(username)
StoreCheckExpiry(s, username) == ~StoreGetUser(s, username).Expired

\* UserStore.CheckRateLimit(username): the answer and the limiter afterwards
StoreCheckRateLimit(s, lim, username) ==
    LET user == s.users[ToLower(username)]
    IN  IF user = NilUser
          THEN [ok |-> FALSE, limiter |-> lim]
          ELSE IF user.RateLimitRPM <= 0
            THEN [ok |-> TRUE, limiter |-> lim]
            ELSE AllowIn(lim, username)

\* isSuperAdmin, as handleRequest and handleConnection compute it
IsSuperAdmin(s, user, ip) ==
    user # NilUser /\ user.Role = "super_admin" /\ IsSuperAdminIP(s, ip)

\* what a handler's checks come to: the branch that ended them, the checks
\* called in order, and the tracker and the limiter afterwards
Checked(outcome, evaluated, t, lim) ==
    [outcome |-> outcome, evaluated |-> evaluated, trk |-> t, limiter |-> lim]

\* a faulty variant of PlanChecks: the expiry is looked at before the rate
\* limit
PlanChecksExpiryFirst(s, t, lim, username, user) ==
    IF ~StoreCheckExpiry(s, username)
      THEN Checked("expired", << "expiry" >>, t, lim)
      ELSE LET rl == StoreCheckRateLimit(s, lim, username)
               bw == CheckAllowance(t, username, user.BandwidthLimitGB)
               cl == CheckConnLimit(bw.trk, username, user.MaxConnections)
           IN  IF ~rl.ok
                 THEN Checked("ratelimited", << "expiry", "rate" >>, t, rl.limiter)
                 ELSE IF ~bw.ok
                   THEN Checked("bandwidth", << "expiry", "rate", "bandwidth" >>,
                                bw.trk, rl.limiter)
                   ELSE Checked(IF cl.ok THEN "pass" ELSE "connlimit",
                                << "expiry", "rate", "bandwidth", "connlimit" >>,
                                cl.trk, rl.limiter)

\* handleRequest's block "if !isSuperAdmin": rate limit, expiry, bandwidth
\* allowance, connection limit
PlanChecks(s, t, lim, username, user) ==
    LET rl == StoreCheckRateLimit(s, lim, username)
    IN  IF ~rl.ok
          THEN Checked("ratelimited", << "rate" >>, t, rl.limiter)
          ELSE IF ~StoreCheckExpiry(s, username)
            THEN Checked("expired", << "rate", "expiry" >>, t, rl.limiter)
            ELSE LET bw == CheckAllowance(t, username, user.BandwidthLimitGB)
                     cl == CheckConnLimit(bw.trk, username, user.MaxConnections)
                 IN  IF ~bw.ok
                       THEN Checked("bandwidth", << "rate", "expiry", "bandwidth" >>,
                                    bw.trk, rl.limiter)
                       ELSE Checked(IF cl.ok THEN "pass" ELSE "connlimit",
                                    << "rate", "expiry", "bandwidth", "connlimit" >>,
                                    cl.trk, rl.limiter)

\* http.Error(w, body, code), after the Proxy-Authenticate header if set
Answer(code, body, authenticate) ==
    [code |-> code, body |-> body, authenticate |-> authenticate]

\* the answer handleRequest gives when a check of the block fails
Refusal(outcome) ==
    CASE outcome = "ratelimited" -> Answer(StatusTooManyRequests, "Too Many Requests", FALSE)
      [] outcome = "expired"     -> Answer(StatusForbidden, "Account Expired", FALSE)
      [] outcome = "bandwidth"   -> Answer(StatusForbidden, "Bandwidth Limit Exceeded", FALSE)
      [] outcome = "connlimit"   -> Answer(StatusTooManyRequests, "Connection Limit Reached", FALSE)
      [] OTHER                   -> Answer(0, "", FALSE)

\* what handleRequest does with a request that is not for the PAC file, up
\* to the call of handleConnect or handleHTTP
Handled(answer, forward, user, evaluated, s, t, lim) ==
    [answer |-> answer, forward |-> forward, user |-> user,
     evaluated |-> evaluated, store |-> s, trk |-> t, limiter |-> lim]

HandleRequest(s, t, lim, ip, present, username, password) ==
    IF ~CheckIPAllowed(s, ip)
      THEN Handled(Answer(StatusForbidden, "Forbidden", FALSE), FALSE, NilUser,
                   << "ip" >>, s, t, lim)
      ELSE IF ~present
        THEN Handled(Answer(StatusProxyAuthRequired,
                            "Proxy Authentication Required", TRUE),
                     FALSE, NilUser, << "ip", "present" >>, s, t, lim)
        ELSE LET v == ValidateCredentials(s, username, password)
             IN  IF ~v.valid
                   THEN Handled(Answer(StatusProxyAuthRequired,
                                       "Proxy Authentication Required", TRUE),
                                FALSE, NilUser, << "ip", "present", "valid" >>,
                                s, t, lim)
                   ELSE IF IsSuperAdmin(s, v.user, ip)
                     THEN Handled(Answer(0, "", FALSE), TRUE, v.user,
                                  << "ip", "present", "valid" >>, v.store, t, lim)
                     ELSE LET chk == PlanChecks(v.store, t, lim, username, v.user)
                          IN  Handled(Refusal(chk.outcome), chk.outcome = "pass",
                                      v.user,
                                      << "ip", "present", "valid" >> \o chk.evaluated,
                                      v.store, chk.trk, chk.limiter)

\* the verdict every check of handleRequest would give on the state the
\* request finds, whether handleRequest calls it or not
Verdicts(s, t, lim, ip, present, username, password) ==
    LET v == ValidateCredentials(s, username, password)
    IN  [ip        |-> CheckIPAllowed(s, ip),
         present   |-> present,
         valid     |-> present /\ v.valid,
         role      |-> v.user.Role,
         adminIP   |-> IsSuperAdminIP(s, ip),
         rate      |-> StoreCheckRateLimit(s, lim, username).ok,
         expiry    |-> StoreCheckExpiry(s, username),
         bandwidth |-> CheckAllowance(t, username, v.user.BandwidthLimitGB).ok,
         connlimit |-> CheckConnLimit(t, username, v.user.MaxConnections).ok]

\* the tokens of every bucket taken together
TokensOf(lim) ==
    LET RECURSIVE Sum(_)
        Sum(S) == IF S = {} THEN 0
                  ELSE LET u == CHOOSE x \in S : TRUE
                       IN  (IF lim.buckets[u] = NoBucket THEN 0
                            ELSE lim.buckets[u].tokens) + Sum(S \ {u})
    IN  Sum(Spellings)

\* handleRequest on slot h, the first that is free; a request without the
\* Proxy-Authorization header carries no password
HttpRequest(h, ip, present, username, password) ==
    /\ hConn[h].pc = "idle"
    /\ \A b \in HttpSlots : b < h => hConn[b].pc # "idle"
    /\ ~present => password = "pw1"
    /\ LET res == HandleRequest(store, tracker, Limiter, ip, present,
                                username, password)
       IN  /\ store' = res.store
           /\ buckets' = res.limiter.buckets
           /\ limits' = res.limiter.limits
           /\ tracker' = IF res.forward
                           THEN IncrementConns(res.trk, res.user.Username)
                           ELSE res.trk
           /\ hConn' = [hConn EXCEPT ![h] =
                           IF res.forward
                             THEN [pc |-> "forward", user |-> res.user.Username]
                             ELSE @]
           /\ hReq' = [ip           |-> ip,
                       present      |-> present,
                       verdict      |-> Verdicts(store, tracker, Limiter, ip,
                                                 present, username, password),
                       evaluated    |-> res.evaluated,
                       code         |-> res.answer.code,
                       body         |-> res.answer.body,
                       authenticate |-> res.answer.authenticate,
                       forward      |-> res.forward,
                       tokens       |-> TokensOf(Limiter) - TokensOf(res.limiter)]
    /\ UNCHANGED << lastLoad, rateNow, allowed, nowMonth, rEngine, rName, rMethod,
                    rPc, rOutcome, rOut, rDialed >>

\* handleConnect or handleHTTP returns: the bytes are recorded and the
\* deferred DecrementConns runs; a client moves a GiB while the user's
\* total is below one
HttpDone(h, down) ==
    /\ hConn[h].pc = "forward"
    /\ down > 0 => tracker.users[hConn[h].user].TotalBytes < MiBPerGiB
    /\ tracker' = DecrementConns(RecordBytes(tracker, hConn[h].user, 0, down),
                                 hConn[h].user)
    /\ hConn' = [hConn EXCEPT ![h] = [pc |-> "idle", user |-> ""]]
    /\ UNCHANGED << store, lastLoad, hReq, rateVars, nowMonth, rEngine, rName,
                    rMethod, rPc, rOutcome, rOut, rDialed >>

\* the users the files reloaded while the HTTP proxy runs give the name bob:
\* without limits, with one limit, with limits that fail together, and a
\* super_admin with every limit
GateUsers ==
    {PlainUser,
     UserRecord("bob", "user", "pw1", 30, TRUE, 0, 0, FALSE),
     UserRecord("bob", "user", "pw1", 30, TRUE, 0, 0, TRUE),
     UserRecord("bob", "user", "pw1", 0, TRUE, 1, 1, FALSE),
     UserRecord("bob", "user", "pw1", 0, TRUE, 1, 0, TRUE),
     UserRecord("bob", "super_admin", "pw1", 30, TRUE, 1, 1, TRUE)}

\* the files: 10.0.0.0/8 is trusted; the whitelist is empty, or holds two
\* ranges when the user is the plain one or the super_admin
GateFiles ==
    {UsersFile(TRUE, TRUE, << u >>, << >>, << "10.0.0.0/8" >>) : u \in GateUsers}
    \cup {UsersFile(TRUE, TRUE, << u >>, << "10.0.0.0/8", "192.0.2.0/24" >>,
                    << "10.0.0.0/8" >>) :
              u \in {PlainUser,
                     UserRecord("bob", "super_admin", "pw1", 30, TRUE, 1, 1, TRUE)}}

\* ------------------------------------------------------------------------
\* One SOCKS5 connection (socks5 handleConnection) from its accept to its
\* close, while the users file is reloaded and other sessions of the user
\* begin and end
\* ------------------------------------------------------------------------

\* sessions of the user that run beside the connection
MaxOthers == 1

\* SOCKS5 protocol constants
Version5 == 5
MethodNoAuth == 0
MethodNoAcceptable == 255
UserPassVersion == 1
CmdConnect == 1
AddrTypes == {1, 3, 4}

\* what a client may send first: version, methods; complete is FALSE when
\* the connection ends before io.ReadFull has its bytes
MethodMessages ==
    {[complete |-> c, ver |-> v, methods |-> m] :
        c \in BOOLEAN, v \in {4, Version5},
        m \in {<< >>, << MethodNoAuth >>, << MethodUserPass >>,
               << MethodNoAuth, MethodUserPass >>}}

\* the RFC 1929 message: version, username, password
AuthMessages ==
    {[complete |-> c, ver |-> v, username |-> "bob", password |-> p] :
        c \in BOOLEAN, v \in {UserPassVersion, 2}, p \in Passwords}

\* the request: version, command, address type, and whether the address
\* and port that follow are complete
RequestMessages ==
    {[complete |-> c, ver |-> v, cmd |-> k, atyp |-> a] :
        c \in BOOLEAN, v \in {4, Version5}, k \in {CmdConnect, 2},
        a \in AddrTypes \cup {9}}

VARIABLES
    sConn,      \* the connection: pc, remote address, the method message
                \* the client sent, the username
                \* authenticateUser returned, the user GetUser returned,
                \* isSuperAdmin, what was written to the client, whether the
                \* target was dialled, the stages passed, the checks called,
                \* and why the handler returned early
    sOthers     \* other sessions of the user between IncrementConns and
                \* DecrementConns

sockVars == << sConn, sOthers >>

\* no method message read yet
NoOffer == [complete |-> FALSE, ver |-> 0, methods |-> << >>]

IdleConn ==
    [pc |-> "idle", ip |-> "", offer |-> NoOffer, name |-> "", valid |-> FALSE,
     user |-> NilUser,
     super |-> FALSE, out |-> << >>, dialed |-> FALSE, visited |-> << >>,
     evaluated |-> << >>, failed |-> ""]

SockInit ==
    /\ sConn = IdleConn
    /\ sOthers = 0

\* a faulty variant of Closed: after its last write the handler goes on
ClosedNot(conn, why, replies) ==
    [conn EXCEPT !.failed = why, !.out = @ \o replies]

\* the handler returns early: what it wrote last, and the deferred Close
Closed(conn, why, replies) ==
    [conn EXCEPT !.pc = "closed", !.failed = why, !.out = @ \o replies]

\* the handler passes a stage
Passed(conn, stage, pc, replies) ==
    [conn EXCEPT !.pc = pc, !.visited = Append(@, stage), !.out = @ \o replies]

\* for _, method := range methods { if method == MethodUserPass ... }
HasUserPass(methods) == \E i \in 1 .. Len(methods) : methods[i] = MethodUserPass

\* handleMethodNegotiationNoAuth, which no caller uses: any method list of
\* version 5 is answered 05 00
HandleMethodNegotiationNoAuth(msg) ==
    IF ~msg.complete
      THEN [ok |-> FALSE, why |-> "read", replies |-> << >>]
      ELSE IF msg.ver # Version5
        THEN [ok |-> FALSE, why |-> "version", replies |-> << >>]
        ELSE [ok |-> TRUE, why |-> "", replies |-> << Method(MethodNoAuth) >>]

\* handleMethodNegotiation up to its call of authenticateUser
HandleMethodNegotiation(msg) ==
    IF ~msg.complete
      THEN [ok |-> FALSE, why |-> "read", replies |-> << >>]
      ELSE IF msg.ver # Version5
        THEN [ok |-> FALSE, why |-> "version", replies |-> << >>]
        ELSE IF ~HasUserPass(msg.methods)
          THEN [ok |-> FALSE, why |-> "method",
                replies |-> << Method(MethodNoAcceptable) >>]
          ELSE [ok |-> TRUE, why |-> "", replies |-> << Method(MethodUserPass) >>]

\* handleRequest of the SOCKS5 server: the reply on refusal
HandleSocksRequest(msg) ==
    IF msg.ver # Version5
      THEN [ok |-> FALSE, why |-> "version", replies |-> << >>]
      ELSE IF msg.cmd # CmdConnect
        THEN [ok |-> FALSE, why |-> "cmd", replies |-> << Reply(ReplyCmdNotSupported) >>]
        ELSE IF msg.atyp \notin AddrTypes
          THEN [ok |-> FALSE, why |-> "atyp",
                replies |-> << Reply(ReplyAddrTypeNotSupported) >>]
          ELSE IF ~msg.complete
            THEN [ok |-> FALSE, why |-> "read", replies |-> << >>]
            ELSE [ok |-> TRUE, why |-> "", replies |-> << >>]

\* what the steps of the connection leave alone besides the store, the
\* tracker and the limiter
sockFrame == << lastLoad, hConn, hReq, rateNow, allowed, nowMonth, rEngine, rName,
               rMethod, rPc, rOutcome, rOut, rDialed >>

\* Accept, and handleConnection up to handleMethodNegotiation
SocksAccept(ip) ==
    /\ sConn.pc \in {"idle", "closed"}
    /\ sConn' = IF CheckIPAllowed(store, ip)
                  THEN [IdleConn EXCEPT !.pc = "method", !.ip = ip]
                  ELSE Closed([IdleConn EXCEPT !.ip = ip], "ip", << >>)
    /\ UNCHANGED << store, tracker, buckets, limits, sOthers, sockFrame >>

\* handleMethodNegotiation: version and methods
SocksMethod(msg) ==
    /\ sConn.pc = "method"
    /\ LET res == HandleMethodNegotiation(msg)
       IN  sConn' = IF res.ok
                      THEN Passed([sConn EXCEPT !.offer = msg], "method", "auth",
                                  res.replies)
                      ELSE Closed([sConn EXCEPT !.offer = msg], res.why, res.replies)
    /\ UNCHANGED << store, tracker, buckets, limits, sOthers, sockFrame >>

\* authenticateUser
SocksAuth(msg) ==
    /\ sConn.pc = "auth"
    /\ IF ~msg.complete \/ msg.ver # UserPassVersion
         THEN /\ sConn' = Closed(sConn, IF msg.complete THEN "version" ELSE "read", << >>)
              /\ UNCHANGED store
         ELSE LET v == ValidateCredentials(store, msg.username, msg.password)
              IN  /\ store' = v.store
                  /\ sConn' = IF v.valid
                                THEN [Passed(sConn, "auth", "getuser", << AuthStatus(0) >>)
                                         EXCEPT !.name = msg.username, !.valid = TRUE]
                                ELSE Closed(sConn, "auth", << AuthStatus(1) >>)
    /\ UNCHANGED << tracker, buckets, limits, sOthers, sockFrame >>

\* user := GetUser(username) and isSuperAdmin
SocksGetUser ==
    /\ sConn.pc = "getuser"
    /\ LET user == StoreGetUser(store, sConn.name)
       IN  sConn' = [sConn EXCEPT !.user = user,
                                  !.super = IsSuperAdmin(store, user, sConn.ip),
                                  !.pc = "rate"]
    /\ UNCHANGED << store, tracker, buckets, limits, sOthers, sockFrame >>

\* if !isSuperAdmin { CheckRateLimit }
SocksRateLimit ==
    /\ sConn.pc = "rate"
    /\ IF sConn.super
         THEN /\ sConn' = [sConn EXCEPT !.pc = "plan"]
              /\ UNCHANGED << buckets, limits >>
         ELSE LET rl == StoreCheckRateLimit(store, Limiter, sConn.name)
              IN  /\ buckets' = rl.limiter.buckets
                  /\ limits' = rl.limiter.limits
                  /\ sConn' = IF rl.ok
                                THEN [sConn EXCEPT !.pc = "plan",
                                                   !.evaluated = Append(@, "rate")]
                                ELSE Closed([sConn EXCEPT !.evaluated = Append(@, "rate")],
                                            "ratelimited", << >>)
    /\ UNCHANGED << store, tracker, sOthers, sockFrame >>

\* if !isSuperAdmin && user != nil { expiry, bandwidth, connection limit },
\* then IncrementConns
SocksPlan ==
    /\ sConn.pc = "plan"
    /\ IF ~sConn.super /\ sConn.user # NilUser
         THEN IF ~StoreCheckExpiry(store, sConn.name)
                THEN /\ sConn' = Closed([sConn EXCEPT !.evaluated = Append(@, "expiry")],
                                        "expired", << >>)
                     /\ UNCHANGED tracker
                ELSE LET bw == CheckAllowance(tracker, sConn.name,
                                              sConn.user.BandwidthLimitGB)
                         cl == CheckConnLimit(bw.trk, sConn.name,
                                              sConn.user.MaxConnections)
                     IN  IF ~bw.ok
                           THEN /\ sConn' = Closed([sConn EXCEPT !.evaluated =
                                                       @ \o << "expiry", "bandwidth" >>],
                                                   "bandwidth", << >>)
                                /\ tracker' = bw.trk
                           ELSE IF ~cl.ok
                             THEN /\ sConn' = Closed([sConn EXCEPT !.evaluated =
                                                         @ \o << "expiry", "bandwidth",
                                                                 "connlimit" >>],
                                                     "connlimit", << >>)
                                  /\ tracker' = cl.trk
                             ELSE /\ sConn' = Passed([sConn EXCEPT !.evaluated =
                                                         @ \o << "expiry", "bandwidth",
                                                                 "connlimit" >>],
                                                     "policy", "request", << >>)
                                  /\ tracker' = IncrementConns(cl.trk, sConn.name)
         ELSE /\ sConn' = Passed(sConn, "policy", "request", << >>)
              /\ tracker' = IncrementConns(tracker, sConn.name)
    /\ UNCHANGED << store, buckets, limits, sOthers, sockFrame >>

\* handleRequest; on an error the handler returns and DecrementConns runs
SocksReadRequest(msg) ==
    /\ sConn.pc = "request"
    /\ LET res == HandleSocksRequest(msg)
       IN  IF res.ok
             THEN /\ sConn' = Passed(sConn, "request", "dial", << >>)
                  /\ UNCHANGED tracker
             ELSE /\ sConn' = Closed(sConn, res.why, res.replies)
                  /\ tracker' = DecrementConns(tracker, sConn.name)
    /\ UNCHANGED << store, buckets, limits, sOthers, sockFrame >>

\* net.DialTimeout and the reply
SocksDial(ok) ==
    /\ sConn.pc = "dial"
    /\ IF ok
         THEN /\ sConn' = [Passed(sConn, "dial", "relay", << Reply(ReplySucceeded) >>)
                              EXCEPT !.dialed = TRUE]
              /\ UNCHANGED tracker
         ELSE /\ sConn' = Closed(sConn, "dial", << Reply(ReplyHostUnreachable) >>)
              /\ tracker' = DecrementConns(tracker, sConn.name)
    /\ UNCHANGED << store, buckets, limits, sOthers, sockFrame >>

\* the relay ends: RecordBytes, the deferred DecrementConns and Close
SocksRelayDone(down) ==
    /\ sConn.pc = "relay"
    /\ down > 0 => tracker.users[sConn.name].TotalBytes < MiBPerGiB
    /\ tracker' = DecrementConns(RecordBytes(tracker, sConn.name, 0, down), sConn.name)
    /\ sConn' = [sConn EXCEPT !.pc = "closed"]
    /\ UNCHANGED << store, buckets, limits, sOthers, sockFrame >>

\* another session of the user passes its checks: IncrementConns
OtherBegin ==
    /\ sOthers < MaxOthers
    /\ sOthers' = sOthers + 1
    /\ tracker' = IncrementConns(tracker, "bob")
    /\ UNCHANGED << store, buckets, limits, sConn, sockFrame >>

\* another session of the user ends: DecrementConns
OtherEnd ==
    /\ sOthers > 0
    /\ sOthers' = sOthers - 1
    /\ tracker' = DecrementConns(tracker, "bob")
    /\ UNCHANGED << store, buckets, limits, sConn, sockFrame >>

\* the users files reloaded while the SOCKS5 server runs: the plain user, a
\* user with a rate limit, a cap and a connection limit, an expired user, a
\* super_admin with every limit, and a file in which the user is disabled
SocksUsers ==
    {PlainUser,
     UserRecord("bob", "user", "pw1", 30, TRUE, 1, 1, FALSE),
     UserRecord("bob", "user", "pw1", 0, TRUE, 0, 0, TRUE),
     UserRecord("bob", "super_admin", "pw1", 30, TRUE, 1, 1, TRUE),
     UserRecord("bob", "user", "pw1", 0, FALSE, 0, 0, FALSE)}

SocksFiles ==
    {UsersFile(TRUE, TRUE, << u >>, << >>, << "10.0.0.0/8" >>) : u \in SocksUsers}
    \cup {UsersFile(TRUE, TRUE, << PlainUser >>, << "10.0.0.0/8", "192.0.2.0/24" >>,
                    << "10.0.0.0/8" >>)}

\* ------------------------------------------------------------------------
\* Loads of the users file by themselves, with the calls that fill the
\* credential cache and drain the buckets between them
\* ------------------------------------------------------------------------

\* LoadFromFile(path) as an observer sees it: the file, the error returned,
\* and the store and the limiter as they were before the call
LoadObserved(cfg) ==
    /\ Load(cfg)
    /\ lastLoad' = [cfg     |-> cfg,
                    err     |-> LoadFromFile(store, Limiter, cfg).err,
                    store   |-> store,
                    limiter |-> Limiter]
    /\ UNCHANGED << hConn, hReq >>

\* a client authenticates: ValidateCredentials
Authenticate(username, password) ==
    /\ store' = ValidateCredentials(store, username, password).store
    /\ store' # store
    /\ lastLoad' = NoLoad
    /\ UNCHANGED << hConn, hReq, rateVars >>

\* a request of the user passes the limiter: CheckRateLimit
TakeToken(username) ==
    /\ LET rl == StoreCheckRateLimit(store, Limiter, username)
       IN  /\ buckets' = rl.limiter.buckets
           /\ limits' = rl.limiter.limits
    /\ buckets' # buckets
    /\ lastLoad' = NoLoad
    /\ UNCHANGED << store, hConn, hReq, rateNow, allowed >>

\* the users arrays of the files: the first user, the user with another
\* password and a rate limit, a super_admin, and two records whose names
\* differ in case only
LoadLists ==
    {<< PlainUser >>,
     << UserRecord("bob", "user", "pw2", 30, TRUE, 0, 0, FALSE) >>,
     << UserRecord("bob", "Super_Admin", "pw1", 0, TRUE, 0, 0, FALSE) >>,
     << PlainUser, UserRecord("Bob", "user", "pw2", 0, TRUE, 0, 0, FALSE) >>}

\* the files: well-formed ones with every list, with and without entries
\* that are no CIDR, a file that cannot be read and one that is not JSON
LoadFiles ==
    {UsersFile(TRUE, TRUE, l, wl, sa) :
        l \in LoadLists,
        wl \in {<< >>, << "10.0.0.0/8", "bogus" >>},
        sa \in {<< "10.0.0.0/8" >>, << "bogus" >>}}
    \cup {UsersFile(FALSE, TRUE, << PlainUser >>, << >>, << >>),
          UsersFile(TRUE, FALSE, << PlainUser >>, << >>, << >>)}

\* ------------------------------------------------------------------------
\* The certificate of the Signal engine: Server.Reload, getCertificate and
\* the SIGHUP goroutine of runSignalProxyMode
\* ------------------------------------------------------------------------

\* the certificate pairs the operator puts on disk one after the other
MaxVersion == 2

\* TLS handshakes in progress at one time
NumHandshakes == 2

Handshakes == 1 .. NumHandshakes

\* a file that is missing or does not parse
BadFile == -1

\* what CertFile or KeyFile holds: the half of pair v, or nothing usable
FileStates == {BadFile} \cup (1 .. MaxVersion)

\* a *tls.Certificate made of a certificate and the private key with it
Pair(c, k) == [cert |-> c, key |-> k]

\* s.cert == nil
NilCert == Pair(0, 0)

\* the callers of Reload: Start's first load and the SIGHUP goroutine
Reloaders == {"start", "sighup"}

VARIABLES
    diskCert,   \* what Config.CertFile holds
    diskKey,    \* what Config.KeyFile holds
    srvCert,    \* s.cert
    serving,    \* "starting", "serving" once Start listens, "exited"
    rl,         \* each caller of Reload: its position and what it has read
    hs          \* each handshake: its position and the certificate it got

certVars == << diskCert, diskKey, srvCert, serving, rl, hs >>

IdleReload == [pc |-> "idle", cert |-> 0, key |-> 0, err |-> FALSE]

IdleHandshake == [pc |-> "idle", cert |-> NilCert, since |-> {}]

\* the operator has put the first pair in place; Start has not been called
CertInit ==
    /\ diskCert = 1
    /\ diskKey = 1
    /\ srvCert = NilCert
    /\ serving = "starting"
    /\ rl = [r \in Reloaders |-> IdleReload]
    /\ hs = [h \in Handshakes |-> IdleHandshake]

\* a faulty variant of X509KeyPair: the key is not compared with the
\* certificate
X509KeyPairUnmatched(c, k) ==
    [err |-> c = BadFile \/ k = BadFile, pair |-> Pair(c, k)]

\* tls.X509KeyPair(certPEM, keyPEM): an error when either does not parse
\* or when the private key is not the certificate's
X509KeyPair(c, k) ==
    [err |-> c = BadFile \/ k = BadFile \/ c # k, pair |-> Pair(c, k)]

\* a faulty variant of Reloaded: a failed load clears s.cert
ReloadedOrCleared(current, loaded) ==
    IF loaded.err THEN NilCert ELSE loaded.pair

\* s.cert after Reload, given what tls.LoadX509KeyPair returned
Reloaded(current, loaded) ==
    IF loaded.err THEN current ELSE loaded.pair

\* the operator writes CertFile
WriteCertFile(v) ==
    /\ v # diskCert
    /\ diskCert' = v
    /\ UNCHANGED << diskKey, srvCert, serving, rl, hs >>

\* the operator writes KeyFile
WriteKeyFile(v) ==
    /\ v # diskKey
    /\ diskKey' = v
    /\ UNCHANGED << diskCert, srvCert, serving, rl, hs >>

\* Reload is entered, by Start once or by the goroutine on a SIGHUP, and
\* tls.LoadX509KeyPair reads CertFile
ReloadReadCert(r) ==
    /\ rl[r].pc = "idle"
    /\ serving # "exited"
    /\ r = "start" => serving = "starting"
    /\ rl' = [rl EXCEPT ![r] = [pc |-> "key", cert |-> diskCert, key |-> 0,
                                err |-> FALSE]]
    /\ UNCHANGED << diskCert, diskKey, srvCert, serving, hs >>

\* tls.LoadX509KeyPair reads KeyFile and makes the pair; on an error
\* Reload returns it: the goroutine logs it, Start returns it to
\* runSignalProxyMode, which ends the process
ReloadReadKey(r) ==
    /\ rl[r].pc = "key"
    /\ serving # "exited"
    /\ LET loaded == X509KeyPair(rl[r].cert, diskKey)
       IN  /\ rl' = [rl EXCEPT ![r] =
                       IF loaded.err
                         THEN [IdleReload EXCEPT !.err = TRUE]
                         ELSE [pc |-> "swap", cert |-> loaded.pair.cert,
                               key |-> loaded.pair.key, err |-> FALSE]]
           /\ srvCert' = IF loaded.err THEN Reloaded(srvCert, loaded) ELSE srvCert
           /\ serving' = IF loaded.err /\ r = "start" THEN "exited" ELSE serving
    /\ UNCHANGED << diskCert, diskKey, hs >>

\* s.mu.Lock(); s.cert = &cert; s.mu.Unlock(); Start goes on to listen
ReloadSwap(r) ==
    /\ rl[r].pc = "swap"
    /\ serving # "exited"
    /\ srvCert' = Reloaded(srvCert, [err |-> FALSE,
                                      pair |-> Pair(rl[r].cert, rl[r].key)])
    /\ rl' = [rl EXCEPT ![r] = IdleReload]
    /\ serving' = IF r = "start" THEN "serving" ELSE serving
    /\ hs' = [h \in Handshakes |->
                 IF hs[h].pc = "hello"
                   THEN [hs[h] EXCEPT !.since = @ \cup {srvCert'}]
                   ELSE hs[h]]
    /\ UNCHANGED << diskCert, diskKey >>

\* a ClientHello arrives on the listener
HandshakeStart(h) ==
    /\ serving = "serving"
    /\ hs[h].pc = "idle"
    /\ hs' = [hs EXCEPT ![h] = [pc |-> "hello", cert |-> NilCert,
                                since |-> {srvCert}]]
    /\ UNCHANGED << diskCert, diskKey, srvCert, serving, rl >>

\* crypto/tls calls getCertificate: s.cert read under the read lock
HandshakeGetCertificate(h) ==
    /\ serving = "serving"
    /\ hs[h].pc = "hello"
    /\ hs' = [hs EXCEPT ![h] = [pc |-> "served", cert |-> srvCert, since |-> {}]]
    /\ UNCHANGED << diskCert, diskKey, srvCert, serving, rl >>

\* the handshake and its connection end
HandshakeEnd(h) ==
    /\ hs[h].pc = "served"
    /\ hs' = [hs EXCEPT ![h] = IdleHandshake]
    /\ UNCHANGED << diskCert, diskKey, srvCert, serving, rl >>

\* ------------------------------------------------------------------------
\* Specifications
\* ------------------------------------------------------------------------

\* ------------------------------------------------------------------------
\* The tracker's mutex: t.mu around the operations and around the writing
\* of the usage file
\* ------------------------------------------------------------------------

\* the goroutines that call the tracker: a session of an engine and the
\* tracker's backgroundLoop
Callers == {"session", "loop"}

\* the calls a caller makes: a session records, checks and counts; the
\* loop saves
CallsOf(c) ==
    IF c = "loop"
      THEN {Op("save", "", 0, 0)}
      ELSE {Op("record", "bob", 0, MiBPerGiB \div 2), Op("check", "bob", 1, 0),
            Op("inc", "bob", 0, 0), Op("dec", "bob", 0, 0)}

VARIABLES
    mu,     \* t.mu: the caller that holds it, "" when it is free
    lk      \* each caller: its position and the call it is making

lockVars == << mu, lk >>

NoCall == [pc |-> "idle", op |-> Op("none", "", 0, 0)]

LockInit ==
    /\ mu = ""
    /\ lk = [c \in Callers |-> NoCall]

\* the call reaches saveToDiskLocked: saveToDisk always, RecordBytes and a
\* limited CheckAllowance through checkMonthlyReset in a new month
WritesFile(t, op) ==
    \/ op.kind = "save"
    \/ op.kind = "record" /\ nowMonth # t.month
    \/ op.kind = "check" /\ op.up > 0 /\ nowMonth # t.month

\* a caller enters a method of the tracker and reaches t.mu.Lock()
CallBegin(c, op) ==
    /\ lk[c].pc = "idle"
    /\ nOps < MaxOps
    /\ lk' = [lk EXCEPT ![c] = [pc |-> "lock", op |-> op]]
    /\ UNCHANGED << mu, polVars, trkVars >>

\* t.mu.Lock() returns and the method runs with the mutex held; a call that
\* reaches saveToDiskLocked is then inside os.WriteFile
CallLock(c) ==
    /\ lk[c].pc = "lock"
    /\ mu = ""
    /\ TrkOp(lk[c].op, lk[c].op.kind = "record"
                          \/ (lk[c].op.kind = "check" /\ lk[c].op.up > 0))
    /\ tracker' = Applied(tracker, lk[c].op).trk
    /\ mu' = c
    /\ lk' = [lk EXCEPT ![c].pc =
                 IF WritesFile(tracker, lk[c].op) THEN "writing" ELSE "held"]

\* the method returns (os.WriteFile has returned, where it was called) and
\* the deferred t.mu.Unlock() runs
CallEnd(c) ==
    /\ lk[c].pc \in {"held", "writing"}
    /\ mu = c
    /\ mu' = ""
    /\ lk' = [lk EXCEPT ![c] = NoCall]
    /\ UNCHANGED << polVars, trkVars >>

\* ------------------------------------------------------------------------
\* The sessions of one user from the connection limit to their end: the
\* calls handleRequest, handleConnect, handleHTTP and the SOCKS5
\* handleConnection make on the tracker, one call a step
\* ------------------------------------------------------------------------

\* sessions of the user that arrive
NumLive == 2

\* max_connections of the user's catalog record
UserMaxConns == 1

Lives == 1 .. NumLive

\* the user's catalog record: user.Username
CatalogName == "bob"

VARIABLES
    live    \* each session: its engine, the name the client typed, its
            \* position and the calls it has made on the tracker

liveVars == << live >>

NoLive == [engine |-> "none", name |-> "", pc |-> "idle", calls |-> << >>]

LiveInit == live = [s \in Lives |-> NoLive]

\* the key of IncrementConns, DecrementConns and RecordBytes: user.Username
\* in the HTTP engine, the name the client typed in the SOCKS5 engine
ConnKey(l) == IF l.engine = "http" THEN CatalogName ELSE l.name

\* the key of CheckConnLimit: the name the client typed, in both engines
CheckKey(l) == l.name

\* ActiveConns under a key, 0 for a key the map does not have
ConnsOf(t, k) == IF t.users[k] = NoUsage THEN 0 ELSE t.users[k].ActiveConns

\* the sessions between their IncrementConns and their DecrementConns
Counted == {s \in Lives : live[s].pc \in {"work", "report", "leave"}}

liveFrame == << nowMonth, rEngine, rName, rMethod, rPc, rOutcome, rOut, rDialed >>

\* a client authenticated as the user (no rate limit, no expiry, no
\* bandwidth cap, not a super_admin) reaches the connection limit check
LiveArrive(s, engine, name) ==
    /\ live[s].pc = "idle"
    /\ \A b \in Lives : b < s => live[b].pc # "idle"
    /\ live' = [live EXCEPT ![s] = [engine |-> engine, name |-> name,
                                    pc |-> "check", calls |-> << >>]]
    /\ UNCHANGED << tracker, liveFrame >>

\* CheckConnLimit(username, user.MaxConnections); refused: 429 or return
LiveCheckConnLimit(s) ==
    /\ live[s].pc = "check"
    /\ LET r == CheckConnLimit(tracker, CheckKey(live[s]), UserMaxConns)
       IN  /\ tracker' = r.trk
           /\ live' = [live EXCEPT ![s].pc = IF r.ok THEN "admit" ELSE "refused",
                                   ![s].calls = Append(@, "check")]
    /\ UNCHANGED liveFrame

\* IncrementConns, with DecrementConns deferred
LiveIncrement(s) ==
    /\ live[s].pc = "admit"
    /\ tracker' = IncrementConns(tracker, ConnKey(live[s]))
    /\ live' = [live EXCEPT ![s].pc = "work", ![s].calls = Append(@, "inc")]
    /\ UNCHANGED liveFrame

\* a faulty variant of LiveFail: the handler returns and nothing is deferred
LiveFailNoDefer(s) ==
    /\ live[s].pc = "work"
    /\ live' = [live EXCEPT ![s].pc = "returned"]
    /\ UNCHANGED << tracker, liveFrame >>

\* the handler returns before any relay: the dial or the hijack failed, the
\* request was no absolute URL or could not be sent, the SOCKS5 request was
\* refused
LiveFail(s) ==
    /\ live[s].pc = "work"
    /\ live' = [live EXCEPT ![s].pc = "leave"]
    /\ UNCHANGED << tracker, liveFrame >>

\* the relay or the copy of the response has ended
LiveRelayEnd(s) ==
    /\ live[s].pc = "work"
    /\ live' = [live EXCEPT ![s].pc = "report"]
    /\ UNCHANGED << tracker, liveFrame >>

\* RecordBytes(key, 0, down) at the end of handleConnect, handleHTTP and
\* handleConnection
LiveRecord(s, down) ==
    /\ live[s].pc = "report"
    /\ tracker' = RecordBytes(tracker, ConnKey(live[s]), 0, down)
    /\ live' = [live EXCEPT ![s].pc = "leave", ![s].calls = Append(@, "record")]
    /\ UNCHANGED liveFrame

\* the handler returns: the deferred DecrementConns runs
LiveDecrement(s) ==
    /\ live[s].pc = "leave"
    /\ tracker' = DecrementConns(tracker, ConnKey(live[s]))
    /\ live' = [live EXCEPT ![s].pc = "returned", ![s].calls = Append(@, "dec")]
    /\ UNCHANGED liveFrame

\* ------------------------------------------------------------------------
\* The PAC responder's limiter: Handler.ServeHTTP, getClientIP and
\* checkRateLimit
\* ------------------------------------------------------------------------

\* PAC_RATE_LIMIT_RPM
PacRateLimitRPM == 2

\* ticks of the clock in time.Minute
PacTicksPerMinute == 2

\* the last tick of the clock
MaxPacClock == 4

\* the address a client connects from, and what it may write in the
\* X-Forwarded-For and X-Real-IP headers
PacPeers == {"10.0.0.1"}
PacHeaders == {"", "203.0.113.9"}
PacKeys == PacPeers \cup (PacHeaders \ {""})

\* h.config.Token, and what a request may carry as its token parameter
PacToken == "s3cret"
PacTokens == {PacToken, ""}

\* a request: r.RemoteAddr as host and port, the two headers and the token
\* parameter; X-Forwarded-For is a list of addresses
PacRequest(host, forwarded, realIP, token) ==
    [RemoteAddr |-> << host, "4711" >>, XForwardedFor |-> forwarded,
     XRealIP |-> realIP, Token |-> token]

VARIABLES
    pacNow,      \* time.Now(), in ticks
    rateTokens,  \* h.rateTokens: key -> count, 0 for an absent key
    rateWindow,  \* h.rateWindow: key -> window start, -1 for an absent key
    pacLast,     \* the last request: its client IP, the status and whether a script was sent
    admWindow,   \* client IP -> tick of the admitted request that opened its window
    admCount     \* client IP -> requests admitted since that tick

pacVars == << pacNow, rateTokens, rateWindow, pacLast, admWindow, admCount >>

PacInit ==
    /\ pacNow = 0
    /\ rateTokens = [k \in PacKeys |-> 0]
    /\ rateWindow = [k \in PacKeys |-> -1]
    /\ pacLast = [key |-> "", status |-> 0, script |-> FALSE]
    /\ admWindow = [k \in PacKeys |-> -1]
    /\ admCount = [k \in PacKeys |-> 0]

\* getClientIP(r): the first entry of X-Forwarded-For, else X-Real-IP, else
\* the host of RemoteAddr
GetClientIP(r) ==
    IF r.XForwardedFor # << >>
      THEN r.XForwardedFor[1]
      ELSE IF r.XRealIP # "" THEN r.XRealIP ELSE r.RemoteAddr[1]

\* a faulty variant of WindowExpired: a window ends when the minute is full
WindowExpiredAtMinute(start, now) == start = -1 \/ now - start >= PacTicksPerMinute

\* the window of a key is absent or older than a minute
WindowExpired(start, now) == start = -1 \/ now - start > PacTicksPerMinute

\* checkRateLimit(clientIP): the answer and the two maps afterwards
PacCheckRateLimit(tokens, window, key, now) ==
    IF WindowExpired(window[key], now)
      THEN [ok |-> TRUE, tokens |-> [tokens EXCEPT ![key] = 1],
            window |-> [window EXCEPT ![key] = now]]
      ELSE IF tokens[key] < PacRateLimitRPM
        THEN [ok |-> TRUE, tokens |-> [tokens EXCEPT ![key] = @ + 1],
              window |-> window]
        ELSE [ok |-> FALSE, tokens |-> tokens, window |-> window]

\* ServeHTTP: 429 for a request the limiter refuses, 401 for a wrong
\* token, otherwise a script is sent; with no limit configured the limiter
\* is not asked
PacServe(r) ==
    LET key     == GetClientIP(r)
        limited == PacRateLimitRPM > 0
        res     == IF limited
                     THEN PacCheckRateLimit(rateTokens, rateWindow, key, pacNow)
                     ELSE [ok |-> TRUE, tokens |-> rateTokens, window |-> rateWindow]
        status  == IF ~res.ok THEN StatusTooManyRequests
                   ELSE IF PacToken # "" /\ r.Token # PacToken THEN StatusUnauthorized
                   ELSE StatusOK
        fresh   == admWindow[key] = -1 \/ pacNow - admWindow[key] > PacTicksPerMinute
    IN  /\ rateTokens' = res.tokens
        /\ rateWindow' = res.window
        /\ pacLast' = [key |-> key, status |-> status, script |-> status = StatusOK]
        /\ admWindow' = IF res.ok /\ fresh
                          THEN [admWindow EXCEPT ![key] = pacNow]
                          ELSE admWindow
        /\ admCount' = IF ~res.ok THEN admCount
                       ELSE [admCount EXCEPT ![key] = IF fresh THEN 1 ELSE @ + 1]
        /\ UNCHANGED pacNow

\* time passes
PacTick ==
    /\ pacNow < MaxPacClock
    /\ pacNow' = pacNow + 1
    /\ UNCHANGED << rateTokens, rateWindow, pacLast, admWindow, admCount >>

\* ------------------------------------------------------------------------
\* socks5 Server.Shutdown next to watchShutdown
\* ------------------------------------------------------------------------

VARIABLES
    socksSdPc,      \* socks5 Shutdown: "idle", "closeLn", "wait", "returned"
    shutdownCloses  \* times close(s.shutdown) was executed; the second one panics

sdVars == << socksSdPc, shutdownCloses >>

SdInit ==
    /\ socksSdPc = "idle"
    /\ shutdownCloses = 0

\* the process has not panicked
Alive == shutdownCloses <= 1

\* the session goroutines counted in s.wg
SocksWg == Cardinality({s \in Sess : tKind[s] = "socks" /\ tPc[s] = "relay"})

\* socks5 watchShutdown: <-ctx.Done(); close(s.shutdown), which panics on a
\* channel that is already closed
SocksWatchClose ==
    /\ shutdownCloses' = shutdownCloses + 1
    /\ UNCHANGED socksSdPc
    /\ IF socksShutdown
         THEN /\ socksWatchPc = "wait"
              /\ tCtxDone
              /\ UNCHANGED tunVars
         ELSE SocksWatchCloseShutdown

\* socks5 Shutdown: close(s.shutdown), which panics on a channel that is
\* already closed
SocksShutdownClose ==
    /\ socksSdPc = "idle"
    /\ shutdownCloses' = shutdownCloses + 1
    /\ IF socksShutdown
         THEN UNCHANGED << socksSdPc, tunVars >>
         ELSE /\ socksShutdown' = TRUE
              /\ socksSdPc' = "closeLn"
              /\ UNCHANGED << tCtxDone, tlsOn, srv, httpStartPc, httpWatchPc,
                              shutdownExpired, socksLnClosed, socksStartPc,
                              socksWatchPc >>
              /\ UNCHANGED sessVars

\* socks5 Shutdown: s.ln.Close()
SocksShutdownCloseListener ==
    /\ socksSdPc = "closeLn"
    /\ socksLnClosed' = TRUE
    /\ socksSdPc' = "wait"
    /\ UNCHANGED << tCtxDone, tlsOn, srv, httpStartPc, httpWatchPc,
                    shutdownExpired, socksShutdown, socksStartPc, socksWatchPc >>
    /\ UNCHANGED << sessVars, shutdownCloses >>

\* socks5 Shutdown: s.wg.Wait() returns, return nil
SocksShutdownWait ==
    /\ socksSdPc = "wait"
    /\ SocksWg = 0
    /\ socksSdPc' = "returned"
    /\ UNCHANGED << tunVars, shutdownCloses >>

\* the variables of the parts added after the engines
lateVars == << gateVars, sockVars, certVars, lockVars, liveVars, pacVars, sdVars >>

vars == << sigVars, tunVars, authVars, polVars, rateVars, limVars, trkVars,
          sniVars, inVars, lateVars >>

\* what the steps of each part leave alone
notSig == << tunVars, authVars, polVars, rateVars, limVars, trkVars, sniVars, inVars, lateVars >>
notTun == << sigVars, authVars, polVars, rateVars, limVars, trkVars, sniVars, inVars, lateVars >>
notAuth == << sigVars, tunVars, polVars, rateVars, limVars, trkVars, sniVars, inVars, lateVars >>
notPol == << sigVars, tunVars, authVars, rateVars, limVars, trkVars, sniVars, inVars, lateVars >>
notRate == << sigVars, tunVars, authVars, polVars, limVars, trkVars, sniVars, inVars, lateVars >>
notLimit == << sigVars, tunVars, authVars, polVars, trkVars, sniVars, inVars, lateVars >>
notSni == << sigVars, tunVars, authVars, polVars, rateVars, limVars, trkVars, inVars, lateVars >>
notIn == << sigVars, tunVars, authVars, polVars, rateVars, limVars, trkVars,
           sniVars, lateVars >>
notGate == << sigVars, tunVars, authVars, limVars, trkVars, sniVars, inVars, sockVars,
             certVars, lockVars, liveVars, pacVars, sdVars >>
notSock == << sigVars, tunVars, authVars, limVars, trkVars, sniVars, inVars, certVars,
             lockVars, liveVars, pacVars, sdVars >>
notCert == << sigVars, tunVars, authVars, polVars, rateVars, limVars, trkVars, sniVars,
             inVars, gateVars, sockVars, lockVars, liveVars, pacVars, sdVars >>
notLock == << sigVars, tunVars, authVars, rateVars, limVars, sniVars, inVars, gateVars,
             sockVars, certVars, liveVars, pacVars, sdVars >>
notLive == << sigVars, tunVars, authVars, rateVars, limVars, trkVars, sniVars, inVars,
             gateVars, sockVars, certVars, lockVars, pacVars, sdVars >>
notPac == << sigVars, tunVars, authVars, polVars, rateVars, limVars, trkVars, sniVars,
            inVars, gateVars, sockVars, certVars, lockVars, liveVars , sdVars >>
notSd == << sigVars, authVars, polVars, rateVars, limVars, trkVars, sniVars, inVars,
           gateVars, sockVars, certVars, lockVars, liveVars, pacVars >>
notTrk == << sigVars, tunVars, authVars, rateVars, limVars, sniVars, inVars, lateVars >>

LateInit == GateInit /\ SockInit /\ CertInit /\ LockInit /\ LiveInit
    /\ PacInit /\ SdInit

\* HTTP_PROXY_TLS defaults to true
Init == SigInit /\ TunInit(TRUE) /\ AuthInit /\ PolInit /\ RateInit /\ LimInit /\ TrkInit
    /\ SniInit /\ InInit /\ LateInit

\* either configuration of the TLS listener
InitTunnel ==
    /\ SigInit /\ AuthInit /\ PolInit /\ RateInit /\ LimInit /\ TrkInit
    /\ SniInit /\ InInit /\ LateInit
    /\ \E tls \in BOOLEAN : TunInit(tls)

\* the Signal engine alone
SigStep ==
    \/ Cancel /\ UNCHANGED notSig
    \/ WatchCloseShutdown /\ UNCHANGED notSig
    \/ WatchCloseListener /\ UNCHANGED notSig
    \/ CheckShutdown /\ UNCHANGED notSig
    \/ \E c \in Conns : AcceptConn(c) /\ UNCHANGED notSig
    \/ \E t \in BOOLEAN : AcceptError(t) /\ UNCHANGED notSig
    \/ DrainDone /\ UNCHANGED notSig
    \/ DrainTimeout /\ UNCHANGED notSig
    \/ \E c \in Conns : PeekReject(c) /\ UNCHANGED notSig
    \/ \E c \in Conns, next \in {"dial", "api"} : PeekOK(c, next) /\ UNCHANGED notSig
    \/ \E c \in Conns : ApiDone(c) /\ UNCHANGED notSig
    \/ \E c \in Conns : DialOK(c) /\ UNCHANGED notSig
    \/ \E c \in Conns : DialFail(c) /\ UNCHANGED notSig
    \/ \E c \in Conns : WriteOK(c) /\ UNCHANGED notSig
    \/ \E c \in Conns : WriteFail(c) /\ UNCHANGED notSig
    \/ \E c \in Conns : CopyExit(c) /\ UNCHANGED notSig
    \/ \E c \in Conns : RelayEnd(c) /\ UNCHANGED notSig
    \/ \E c \in Conns : ReleaseSlot(c) /\ UNCHANGED notSig
    \/ \E c \in Conns : WgDone(c) /\ UNCHANGED notSig

SpecSignal == Init /\ [][SigStep]_vars

\* the lifecycle of the HTTP and SOCKS5 engines and of their sessions,
\* without the bytes the sessions move
TunStep ==
    \/ TCancel /\ UNCHANGED notTun
    \/ SocksWatchCloseShutdown /\ UNCHANGED notTun
    \/ SocksWatchCloseListener /\ UNCHANGED notTun
    \/ SocksCheckShutdown /\ UNCHANGED notTun
    \/ \E t \in BOOLEAN : SocksAcceptError(t) /\ UNCHANGED notTun
    \/ HttpWatchBegin /\ UNCHANGED notTun
    \/ \E e \in BOOLEAN : HttpWatchNext(e) /\ UNCHANGED notTun
    \/ \E e \in BOOLEAN : HttpWatchEnd(e) /\ UNCHANGED notTun
    \/ HttpServeReturns /\ UNCHANGED notTun
    \/ HttpStartReturns /\ UNCHANGED notTun
    \/ \E s \in Sess, k \in Kinds : TStart(s, k) /\ UNCHANGED notTun
    \/ \E s \in Sess, side \in {"client", "target"} : PeerClose(s, side) /\ UNCHANGED notTun
    \/ \E s \in Sess, d \in Dirs : CopyEnd(s, d) /\ UNCHANGED notTun
    \/ \E s \in Sess : HandlerEnd(s) /\ UNCHANGED notTun

SpecTunnel == InitTunnel /\ [][TunStep]_vars

\* the relay of the sessions with the bytes they move, while the engines run
RelayStep ==
    \/ SocksCheckShutdown /\ UNCHANGED notTun
    \/ \E s \in Sess, k \in Kinds : TStart(s, k) /\ UNCHANGED notTun
    \/ \E s \in Sess, side \in {"client", "target"} : PeerClose(s, side) /\ UNCHANGED notTun
    \/ \E s \in Sess, d \in Dirs : CopyChunk(s, d) /\ UNCHANGED notTun
    \/ \E s \in Sess, d \in Dirs : CopyEnd(s, d) /\ UNCHANGED notTun
    \/ \E s \in Sess : HandlerEnd(s) /\ UNCHANGED notTun

SpecRelay == InitTunnel /\ [][RelayStep]_vars

\* The steps of the Signal engine that the runtime, the 10 s peek and dial
\* deadlines and the cancelled context guarantee to happen: everything but
\* the arrival of connections, spurious accept errors, the cancellation
\* itself and the copy goroutines' exits.
HandlerStep(c) ==
    \/ PeekReject(c)
    \/ \E next \in {"dial", "api"} : PeekOK(c, next)
    \/ ApiDone(c)
    \/ DialOK(c)
    \/ DialFail(c)
    \/ WriteOK(c)
    \/ WriteFail(c)
    \/ RelayEnd(c)
    \/ ReleaseSlot(c)
    \/ WgDone(c)

SigFairness ==
    /\ WF_vars(WatchCloseShutdown /\ UNCHANGED notSig)
    /\ WF_vars(WatchCloseListener /\ UNCHANGED notSig)
    /\ WF_vars(CheckShutdown /\ UNCHANGED notSig)
    /\ WF_vars(lnClosed /\ AcceptError(FALSE) /\ UNCHANGED notSig)
    /\ WF_vars((DrainDone \/ DrainTimeout) /\ UNCHANGED notSig)
    /\ \A c \in Conns : WF_vars(HandlerStep(c) /\ UNCHANGED notSig)

SpecSignalFair == Init /\ [][SigStep]_vars /\ SigFairness

\* the identity store: reloads of the catalog and concurrent validations
AuthStep ==
    \/ \E e \in CatalogEntries : LoadSwap(e) /\ UNCHANGED notAuth
    \/ LoadInvalidate /\ UNCHANGED notAuth
    \/ \E k \in CacheKeys : CacheExpire(k) /\ UNCHANGED notAuth
    \/ \E p \in Validators, n \in Spellings, pw \in Passwords :
           VBegin(p, n, pw) /\ UNCHANGED notAuth
    \/ \E p \in Validators : VCacheCheck(p) /\ UNCHANGED notAuth
    \/ \E p \in Validators : VReadUsers(p) /\ UNCHANGED notAuth
    \/ \E p \in Validators : VBcrypt(p) /\ UNCHANGED notAuth
    \/ \E p \in Validators : VInsert(p) /\ UNCHANGED notAuth
    \/ \E p \in Validators : VReturn(p) /\ UNCHANGED notAuth

SpecAuth == Init /\ [][AuthStep]_vars

\* the policy checks of the HTTP and SOCKS5 engines over the tracker
PolStep ==
    \/ \E r \in Reqs, n \in Spellings, m \in {"CONNECT", "GET"},
          credOK \in BOOLEAN, adminIP \in BOOLEAN, rateOK \in BOOLEAN :
           HttpHandleRequest(r, n, m, credOK, adminIP, rateOK) /\ UNCHANGED notPol
    \/ \E r \in Reqs, dialOK \in BOOLEAN, up \in Sizes, down \in Sizes :
           HttpHandle(r, dialOK, up, down) /\ UNCHANGED notPol
    \/ \E r \in Reqs, n \in Spellings,
          credOK \in BOOLEAN, adminIP \in BOOLEAN, rateOK \in BOOLEAN :
           SocksHandleConnection(r, n, credOK, adminIP, rateOK) /\ UNCHANGED notPol
    \/ \E r \in Reqs, res \in {"readerr", "cmd", "atyp", "dialfail", "ok"} :
           SocksRequest(r, res) /\ UNCHANGED notPol
    \/ \E r \in Reqs, up \in Sizes, down \in Sizes :
           SocksRelayEnd(r, up, down) /\ UNCHANGED notPol
    \/ MonthTick /\ UNCHANGED notPol

SpecPolicy == Init /\ [][PolStep]_vars

\* the limiter: limits set by the loads of the catalog, requests, the clock
RateStep ==
    \/ \E u \in Spellings, rpm \in Rpms : SetLimit(u, rpm) /\ UNCHANGED notRate
    \/ \E u \in Spellings : Allow(u) /\ UNCHANGED notRate
    \/ RateTick /\ UNCHANGED notRate

SpecRate == Init /\ [][RateStep]_vars

\* the rate-limit checks of requests, between loads of the catalog
LimitStep ==
    \/ \E n \in Spellings, rpm \in CatalogRpms : LoadLimits(n, rpm) /\ UNCHANGED notLimit
    \/ \E typed \in Spellings : CheckRateLimit(typed) /\ UNCHANGED notLimit
    \/ RateTick /\ UNCHANGED << limVars, notLimit >>

SpecLimit == Init /\ [][LimitStep]_vars

\* the tracker under its operations, the passing of months and restarts
TrkStep ==
    \/ \E u \in Spellings, up \in Sizes, down \in Sizes :
           TrkRecord(u, up, down) /\ UNCHANGED notTrk
    \/ \E u \in Spellings, limitGB \in {0, 1} : TrkCheck(u, limitGB) /\ UNCHANGED notTrk
    \/ \E u \in Spellings, kind \in {"inc", "dec"} :
           TrkConns(u, kind) /\ UNCHANGED notTrk
    \/ TrkSave /\ UNCHANGED notTrk
    \/ TrkRestart /\ UNCHANGED notTrk
    \/ MonthTick /\ UNCHANGED << trkVars, notTrk >>

SpecTracker == Init /\ [][TrkStep]_vars

\* the tracker with a disk that may refuse its writes and a process that
\* may be killed while it saves
PersistStep ==
    \/ \E u \in Spellings, down \in Sizes :
           TrkRecord(u, 0, down) /\ UNCHANGED notTrk
    \/ \E u \in Spellings : TrkCheck(u, 1) /\ UNCHANGED notTrk
    \/ \E u \in Spellings, kind \in {"inc", "dec"} :
           TrkConns(u, kind) /\ UNCHANGED notTrk
    \/ TrkSave /\ UNCHANGED notTrk
    \/ TrkRestart /\ UNCHANGED notTrk
    \/ TrkCrashInSave /\ UNCHANGED notTrk
    \/ \E condition \in DiskConditions : DiskChange(condition) /\ UNCHANGED notTrk
    \/ MonthTick /\ UNCHANGED << trkVars, notTrk >>

SpecPersist == Init /\ [][PersistStep]_vars

\* extractSNI on well-formed, damaged and truncated ClientHello records
SniStep ==
    \/ \E sid \in SessionIds, cs \in CipherSuites, comp \in Compressions,
          pre \in Preceding, h \in HostNames :
           Compose(sid, cs, comp, pre, h) /\ UNCHANGED notSni
    \/ \E i \in 1 .. Len(data), b \in Pokes : Poke(i, b) /\ UNCHANGED notSni
    \/ \E n \in 0 .. Len(data) : Cut(n) /\ UNCHANGED notSni
    \/ Extract /\ UNCHANGED notSni

SpecSNI == Init /\ [][SniStep]_vars

\* one connection to the Signal engine, from its first bytes to its end
InStep ==
    \/ \E h \in InnerNames : InConnect("tls", h) /\ UNCHANGED notIn
    \/ InConnect("http", << >>) /\ UNCHANGED notIn
    \/ InPeekFail /\ UNCHANGED notIn
    \/ \E n \in 1 .. Len(cStream) : InPeek(n) /\ UNCHANGED notIn
    \/ \E ok \in BOOLEAN : InDial(ok) /\ UNCHANGED notIn
    \/ InWrite /\ UNCHANGED notIn
    \/ \E k \in 0 .. Len(initialData) : InWriteFail(k) /\ UNCHANGED notIn
    \/ \E m \in 1 .. Len(cStream) : InCopyUp(m) /\ UNCHANGED notIn
    \/ \E m \in 1 .. Len(Response) : InCopyDown(m) /\ UNCHANGED notIn
    \/ \E dir \in {"up", "down"} : InCopyExit(dir) /\ UNCHANGED notIn
    \/ InCancel /\ UNCHANGED notIn
    \/ InRelayEnd /\ UNCHANGED notIn

SpecInner == Init /\ [][InStep]_vars

\* the copyData goroutines run: a Read returns once bytes are there, and the
\* Write that follows it completes; the handler returns once its select has
\* a ready case
InFairness ==
    /\ WF_vars(InRelayEnd /\ UNCHANGED notIn)
    /\ WF_vars((\E m \in 1 .. Len(cStream) : InCopyUp(m)) /\ UNCHANGED notIn)
    /\ WF_vars((\E m \in 1 .. Len(Response) : InCopyDown(m)) /\ UNCHANGED notIn)

SpecInnerFair == Init /\ [][InStep]_vars /\ InFairness

\* the HTTP proxy's admission checks, between reloads of the users file
GateStep ==
    \/ \E cfg \in GateFiles : Load(cfg) /\ UNCHANGED << lastLoad, hConn, hReq, polVars, notGate >>
    \/ \E h \in HttpSlots, ip \in ClientIPs, present \in BOOLEAN, pw \in Passwords :
           HttpRequest(h, ip, present, "bob", pw) /\ UNCHANGED notGate
    \/ \E h \in HttpSlots, down \in {0, MiBPerGiB} : HttpDone(h, down) /\ UNCHANGED notGate

SpecGate == Init /\ [][GateStep]_vars

\* one SOCKS5 connection after another, between reloads of the users file
\* and beside other sessions of the user
SockStep ==
    \/ \E cfg \in SocksFiles :
           Load(cfg) /\ UNCHANGED << lastLoad, hConn, hReq, polVars, sockVars, notSock >>
    \/ \E ip \in ClientIPs : SocksAccept(ip) /\ UNCHANGED notSock
    \/ \E msg \in MethodMessages : SocksMethod(msg) /\ UNCHANGED notSock
    \/ \E msg \in AuthMessages : SocksAuth(msg) /\ UNCHANGED notSock
    \/ SocksGetUser /\ UNCHANGED notSock
    \/ SocksRateLimit /\ UNCHANGED notSock
    \/ SocksPlan /\ UNCHANGED notSock
    \/ \E msg \in RequestMessages : SocksReadRequest(msg) /\ UNCHANGED notSock
    \/ \E ok \in BOOLEAN : SocksDial(ok) /\ UNCHANGED notSock
    \/ \E down \in {0, MiBPerGiB} : SocksRelayDone(down) /\ UNCHANGED notSock
    \/ OtherBegin /\ UNCHANGED notSock
    \/ OtherEnd /\ UNCHANGED notSock

SpecSocks == Init /\ [][SockStep]_vars

\* the users file is loaded again and again while clients authenticate and
\* make requests
LoadStep ==
    \/ \E cfg \in LoadFiles : LoadObserved(cfg) /\ UNCHANGED << polVars, notGate >>
    \/ \E n \in Spellings, pw \in Passwords :
           Authenticate(n, pw) /\ UNCHANGED << polVars, notGate >>
    \/ \E n \in Spellings : TakeToken(n) /\ UNCHANGED << polVars, notGate >>

SpecLoad == Init /\ [][LoadStep]_vars

\* the certificate files are rewritten and reloaded while clients shake
\* hands with the server
CertStep ==
    \/ \E v \in FileStates : WriteCertFile(v) /\ UNCHANGED notCert
    \/ \E v \in FileStates : WriteKeyFile(v) /\ UNCHANGED notCert
    \/ \E r \in Reloaders : ReloadReadCert(r) /\ UNCHANGED notCert
    \/ \E r \in Reloaders : ReloadReadKey(r) /\ UNCHANGED notCert
    \/ \E r \in Reloaders : ReloadSwap(r) /\ UNCHANGED notCert
    \/ \E h \in Handshakes : HandshakeStart(h) /\ UNCHANGED notCert
    \/ \E h \in Handshakes : HandshakeGetCertificate(h) /\ UNCHANGED notCert
    \/ \E h \in Handshakes : HandshakeEnd(h) /\ UNCHANGED notCert

SpecCert == Init /\ [][CertStep]_vars

\* a session and the background loop call the tracker while months pass
LockStep ==
    \/ \E c \in Callers : \E op \in CallsOf(c) : CallBegin(c, op) /\ UNCHANGED notLock
    \/ \E c \in Callers : CallLock(c) /\ UNCHANGED notLock
    \/ \E c \in Callers : CallEnd(c) /\ UNCHANGED notLock
    \/ MonthTick /\ UNCHANGED << trkVars, lockVars, notLock >>

SpecLock == Init /\ [][LockStep]_vars

\* sessions of the user in both engines, under either spelling of the name,
\* while months pass
LiveStep ==
    \/ \E s \in Lives, e \in {"http", "socks"}, n \in Spellings :
           LiveArrive(s, e, n) /\ UNCHANGED notLive
    \/ \E s \in Lives : LiveCheckConnLimit(s) /\ UNCHANGED notLive
    \/ \E s \in Lives : LiveIncrement(s) /\ UNCHANGED notLive
    \/ \E s \in Lives : LiveFail(s) /\ UNCHANGED notLive
    \/ \E s \in Lives : LiveRelayEnd(s) /\ UNCHANGED notLive
    \/ \E s \in Lives : LiveRecord(s, MiBPerGiB \div 2) /\ UNCHANGED notLive
    \/ \E s \in Lives : LiveDecrement(s) /\ UNCHANGED notLive
    \/ MonthTick /\ UNCHANGED << liveVars, notLive >>

SpecLive == Init /\ [][LiveStep]_vars

\* requests for the PAC script from a peer, with and without the
\* forwarding headers, while time passes
PacStep ==
    \/ \E host \in PacPeers, f \in PacHeaders, x \in PacHeaders, token \in PacTokens :
           PacServe(PacRequest(host, IF f = "" THEN << >> ELSE << f, host >>, x, token))
               /\ UNCHANGED notPac
    \/ PacTick /\ UNCHANGED notPac

SpecPac == Init /\ [][PacStep]_vars

\* the SOCKS5 engine with its sessions, the cancellation of Start's context
\* and a call of Shutdown at any moment; nothing runs after a panic
ShutdownStep ==
    \/ Alive /\ TCancel /\ UNCHANGED notTun
    \/ Alive /\ SocksWatchClose /\ UNCHANGED notSd
    \/ Alive /\ SocksWatchCloseListener /\ UNCHANGED notTun
    \/ Alive /\ SocksCheckShutdown /\ UNCHANGED notTun
    \/ Alive /\ (\E t \in BOOLEAN : SocksAcceptError(t)) /\ UNCHANGED notTun
    \/ Alive /\ (\E s \in Sess : TStart(s, "socks")) /\ UNCHANGED notTun
    \/ Alive /\ (\E s \in Sess, side \in {"client", "target"} : PeerClose(s, side))
             /\ UNCHANGED notTun
    \/ Alive /\ (\E s \in Sess, d \in Dirs : CopyEnd(s, d)) /\ UNCHANGED notTun
    \/ Alive /\ (\E s \in Sess : HandlerEnd(s)) /\ UNCHANGED notTun
    \/ Alive /\ SocksShutdownClose /\ UNCHANGED notSd
    \/ Alive /\ SocksShutdownCloseListener /\ UNCHANGED notSd
    \/ Alive /\ SocksShutdownWait /\ UNCHANGED notSd

SpecShutdown == Init /\ [][ShutdownStep]_vars

\* ------------------------------------------------------------------------
\* Claims
\* ------------------------------------------------------------------------

SlotHolders == {c \in Conns : connPc[c] \in Holding}

\* C1: in every reachable state the number of connections holding an
\* admission slot (handler goroutine started, slot not yet released) is at
\* most max_conns, and it is the number of tokens in the semaphore.
C1_AdmissionBound ==
    /\ Cardinality(SlotHolders) <= MaxConns
    /\ connSem = Cardinality(SlotHolders)
    /\ Cardinality({c \in Conns : connPc[c] \in InHandler}) <= MaxConns

\* C1 witness: all max_conns slots are held and a further connection was
\* turned away
C1_Witness ==
    /\ Cardinality(SlotHolders) = MaxConns
    /\ \E c \in Conns : connPc[c] = "rejected"

\* the accept loop takes connection c from the listener in this step
Accepted(c) == connPc[c] = "idle" /\ connPc'[c] # "idle"

\* C2: a connection accepted while all max_conns slots are held is closed at
\* once, counts exactly one rejection, gets no handler (no slot, no wait-group
\* entry, no handler position) and leaves the accept loop at the top of its
\* loop, not waiting for a slot.
C2_LoadShedding ==
    [][\A c \in Conns :
          (Accepted(c) /\ connSem = MaxConns) =>
              /\ connPc'[c] = "rejected"
              /\ ~clientOpen'[c]
              /\ rejected' = rejected + 1
              /\ connSem' = connSem
              /\ wg' = wg
              /\ activeConns' = activeConns
              /\ startPc' = "check"]_vars

\* C2 witness: a connection was rejected while every slot was held
C2_Witness ==
    /\ connSem = MaxConns
    /\ rejected > 0
    /\ \E c \in Conns : connPc[c] = "rejected" /\ ~clientOpen[c]

\* C3: after the cancellation every Signal session that is in flight
\* eventually returns with both endpoints closed, Start eventually returns,
\* and Start returns from the drain only when all session goroutines have
\* finished or the 30 s drain deadline has fired.
C3_Drain ==
    /\ \A c \in Conns :
          (ctxDone /\ connPc[c] \in InHandler)
              ~> (connPc[c] \notin InHandler /\ ~clientOpen[c] /\ ~upOpen[c])
    /\ ctxDone ~> (startPc \in {"returned", "failed"})
    /\ [](startPc = "returned" => (wg = 0 \/ drainTimedOut))

\* C3 witness: a session that was relaying when the context was cancelled has
\* returned, and Start has left the drain without the deadline firing
C3_Witness ==
    /\ startPc = "returned"
    /\ ~drainTimedOut
    /\ \E c \in atCancel : connPc[c] = "finished"

\* the steps by which the proxy itself ends the relay of session s
SessionExit(s) ==
    \/ \E d \in Dirs : CopyEnd(s, d) /\ UNCHANGED notTun
    \/ HandlerEnd(s) /\ UNCHANGED notTun

\* C4: when the 30 s drain deadline of the HTTP engine has expired and its
\* drain is over, no session of the engine is still running with open
\* endpoints (the remaining ones were force-closed).
C4_ForceClose ==
    (httpWatchPc = "done" /\ shutdownExpired) =>
        \A s \in Sess : tKind[s] \in HttpKinds => (tPc[s] # "relay" /\ tOpen[s] = {})

\* C5: once the cancellation has been processed, a CONNECT tunnel or SOCKS5
\* session in its relay phase whose peers stay silent can leave the relay by
\* a step of the proxy itself, and no engine's Start has returned while one
\* of its tunnels is still relaying before the drain deadline.
C5_CancellationReachesTunnels ==
    /\ \A s \in Sess :
          ( /\ tKind[s] \in TunnelKinds
            /\ tPc[s] = "relay"
            /\ peerClosed[s] = {}
            /\ httpWatchPc = "done"
            /\ socksWatchPc = "done" ) => ENABLED SessionExit(s)
    /\ \A s \in Sess :
          (tKind[s] = "socks" /\ socksStartPc = "returned") => tPc[s] # "relay"
    /\ \A s \in Sess :
          ( /\ tKind[s] \in {"connect", "connectTLS"}
            /\ httpStartPc = "returned"
            /\ ~shutdownExpired ) => tPc[s] # "relay"

\* C7: for every CONNECT and SOCKS5 session that has ended, the upstream and
\* downstream byte counts handed to the bandwidth tracker and the metrics are
\* the numbers of bytes the relay wrote to the target and to the client.
C7_ByteAccounting ==
    \A s \in Sess :
        (tKind[s] \in TunnelKinds /\ tPc[s] = "returned") =>
            /\ recorded[s].up = written[s]["up"]
            /\ recorded[s].down = written[s]["down"]

\* the validator's call returns from the credential cache in this step
CacheHit(p) ==
    /\ vPc[p] = "cacheCheck"
    /\ vPc'[p] = "done"
    /\ vResult'[p] = "hit"

\* the last load of the catalog that has returned
LoadedGen == IF loadPc = "idle" THEN loads ELSE loads - 1

\* C6: a validate call that returns from the cache returns a user of the
\* catalog of the last completed reload, never one verified against a
\* catalog that a completed reload has replaced.
C6_NoStaleCacheHit ==
    [][\A p \in Validators : CacheHit(p) => vUser'[p].gen >= LoadedGen]_vars

RECURSIVE SumTotals(_, _)
SumTotals(t, keys) ==
    IF keys = {}
      THEN 0
      ELSE LET k == CHOOSE x \in keys : TRUE
           IN  (IF t.users[k] = NoUsage THEN 0 ELSE t.users[k].TotalBytes)
               + SumTotals(t, keys \ {k})

\* the bytes recorded this month for the user with folded name u
RecordedThisMonth(u) ==
    IF tracker.month # nowMonth
      THEN 0
      ELSE SumTotals(tracker, {k \in Spellings : ToLower(k) = u})

\* request r comes to the HTTP proxy with valid credentials in this step
HttpAuthenticated(r) ==
    /\ rPc[r] = "idle"
    /\ rEngine'[r] = "http"
    /\ rOutcome'[r] # "authfail"

\* C8: an HTTP proxy request authenticated as a user with a cap of L > 0 GB
\* for whom L * 2^30 bytes or more are recorded this month is answered 403
\* and does not reach handleConnect or handleHTTP, however the client
\* spells the user name.
C8_BandwidthCapHttp ==
    [][\A r \in Reqs :
          ( /\ HttpAuthenticated(r)
            /\ GetUser(rName'[r]).Role # "super_admin"
            /\ GetUser(rName'[r]).BandwidthLimitGB > 0
            /\ RecordedThisMonth(ToLower(rName'[r]))
                  >= GetUser(rName'[r]).BandwidthLimitGB * MiBPerGiB )
          => ( /\ rOut'[r] = << Status(StatusForbidden) >>
               /\ rPc'[r] = "done" )]_vars

\* C9: a SOCKS5 session refused because the user's monthly cap is exceeded
\* has dialled nothing and the last thing written to its client is a reply
\* with code HostUnreachable.
C9_SocksBandwidthReply ==
    \A r \in Reqs :
        (rEngine[r] = "socks" /\ rOutcome[r] = "bandwidth") =>
            /\ ~rDialed[r]
            /\ rOut[r] # << >>
            /\ rOut[r][Len(rOut[r])] = Reply(ReplyHostUnreachable)

\* max(rpm/6, 10), in sixtieths of a token
Capacity(rpm) ==
    IF rpm * 10 > 10 * RateScale THEN rpm * 10 ELSE 10 * RateScale

C12_Unlimited ==
    [][(nChecks' = nChecks + 1 /\ catUser.RateLimitRPM = 0) =>
          /\ allowed' = "yes"
          /\ rateLimited' = rateLimited
          /\ buckets' = buckets]_vars

\* C12 witness: the last check ran without a limit and was allowed while the
\* bucket an earlier catalog set up under the same spelling holds less than
\* one token and has refused a check
C12_Witness ==
    /\ checkedRpm = 0
    /\ catUser.RateLimitRPM = 0
    /\ allowed = "yes"
    /\ buckets[catUser.Username] # NoBucket
    /\ buckets[catUser.Username].tokens < RateScale
    /\ rateLimited[catUser.Username] > 0

\* C13: every user record of the tracker has total_bytes = bytes_up +
\* bytes_down and no negative counter, after any sequence of record, check,
\* connection-count, save, month-rollover and restart operations.
C13_UsageConsistent ==
    \A k \in Spellings :
        tracker.users[k] # NoUsage =>
            /\ tracker.users[k].TotalBytes
                  = tracker.users[k].BytesUp + tracker.users[k].BytesDown
            /\ tracker.users[k].BytesUp >= 0
            /\ tracker.users[k].BytesDown >= 0
            /\ tracker.users[k].TotalBytes >= 0

\* C13 witness: a tracker restored from its file after a month rollover,
\* holding bytes of both directions
C13_Witness ==
    /\ lastOp.kind = "restart"
    /\ zeroings[nowMonth] = 1
    /\ \E k \in Spellings :
          /\ tracker.users[k] # NoUsage
          /\ tracker.users[k].BytesUp > 0
          /\ tracker.users[k].BytesDown > 0

\* C14: a tracker created from an existing file whose month is the current
\* month has, for every user of the file, the file's bytes_up, bytes_down
\* and total_bytes and active_conns 0, and no other user; created from a
\* file of another month it has no user at all and the current month.
C14_RoundTrip ==
    [][(nOps' = nOps + 1 /\ lastOp'.kind = "restart" /\ tracker.file # NoFile) =>
          /\ tracker'.file = tracker.file
          /\ IF tracker.file.month = nowMonth
               THEN /\ tracker'.month = tracker.file.month
                    /\ \A k \in Spellings :
                          IF tracker.file.users[k] = NoJson
                            THEN tracker'.users[k] = NoUsage
                            ELSE /\ tracker'.users[k].BytesUp
                                       = tracker.file.users[k].bytes_up
                                 /\ tracker'.users[k].BytesDown
                                       = tracker.file.users[k].bytes_down
                                 /\ tracker'.users[k].TotalBytes
                                       = tracker.file.users[k].total_bytes
                                 /\ tracker'.users[k].ActiveConns = 0
               ELSE /\ tracker'.month = nowMonth
                    /\ \A k \in Spellings : tracker'.users[k] = NoUsage]_vars

\* C14 witness: a tracker just restored from a file of the current month
\* that holds bytes and a non-zero active_conns for a user
C14_Witness ==
    /\ lastOp.kind = "restart"
    /\ tracker.file # NoFile
    /\ tracker.file.month = nowMonth
    /\ \E k \in Spellings :
          /\ tracker.file.users[k] # NoJson
          /\ tracker.file.users[k].active_conns > 0
          /\ tracker.file.users[k].bytes_up > 0
          /\ tracker.users[k].BytesUp = tracker.file.users[k].bytes_up
          /\ tracker.users[k].ActiveConns = 0

\* a record call or a check_allowance call with a limit
Triggering(op) ==
    \/ op.kind = "record"
    \/ op.kind = "check" /\ op.up > 0

\* C15: a record or limited check_allowance call made in a month that is not
\* the tracker's zeroes the bytes of every user, sets the month, saves the
\* zeroed state, and a record call's bytes are then counted on top of zero;
\* made in the tracker's month it zeroes nothing and saves nothing; and the
\* counts are zeroed at most once in any month.
C15_Rollover ==
    [][/\ \A m \in DOMAIN zeroings : zeroings'[m] <= 1
       /\ (nOps' = nOps + 1 /\ Triggering(lastOp')) =>
            LET op == lastOp'
                added(k) == IF op.kind = "record" /\ k = op.user
                              THEN [up |-> op.up, down |-> op.down]
                              ELSE [up |-> 0, down |-> 0]
            IN  IF nowMonth # tracker.month
                  THEN /\ tracker'.month = nowMonth
                       /\ zeroings'[nowMonth] = zeroings[nowMonth] + 1
                       /\ tracker'.file.month = nowMonth
                       /\ \A k \in Spellings :
                            /\ tracker.users[k] # NoUsage =>
                                 /\ tracker'.users[k].BytesUp = added(k).up
                                 /\ tracker'.users[k].BytesDown = added(k).down
                                 /\ tracker'.users[k].TotalBytes
                                       = added(k).up + added(k).down
                                 /\ tracker'.file.users[k].bytes_up = 0
                                 /\ tracker'.file.users[k].bytes_down = 0
                                 /\ tracker'.file.users[k].total_bytes = 0
                            /\ tracker.users[k] = NoUsage =>
                                 tracker'.file.users[k] = NoJson
                  ELSE /\ tracker'.month = tracker.month
                       /\ zeroings' = zeroings
                       /\ tracker'.file = tracker.file
                       /\ \A k \in Spellings :
                            tracker.users[k] # NoUsage =>
                                 /\ tracker'.users[k].BytesUp
                                       = tracker.users[k].BytesUp + added(k).up
                                 /\ tracker'.users[k].BytesDown
                                       = tracker.users[k].BytesDown + added(k).down
                                 /\ tracker'.users[k].TotalBytes
                                       = tracker.users[k].TotalBytes
                                           + added(k).up + added(k).down]_vars

\* C15 witness: after a rollover that zeroed the counts of a month, a second
\* record call in the same month has added to the bytes of the first
C15_Witness ==
    /\ zeroings[nowMonth] = 1
    /\ tracker.month = nowMonth
    /\ tracker.file.month = nowMonth
    /\ lastOp.kind = "record"
    /\ lastOp.up > 0
    /\ tracker.users[lastOp.user].BytesUp = 2 * lastOp.up
    /\ \E k \in Spellings :
          /\ k # lastOp.user
          /\ tracker.users[k] # NoUsage
          /\ tracker.users[k].TotalBytes = 0

\* C19: extractSNI applied to a well-formed ClientHello record whose
\* server_name extension carries host_name h returns exactly h, whatever the
\* lengths of the session id, the cipher suites and the compression methods
\* and whatever extension precedes server_name.
C19_SniRoundTrip ==
    (sniPc = "extracted" /\ changed = "no") =>
        /\ extracted.sni = hello.h
        /\ extracted = ExtractSNI(ClientHello(hello.sid, hello.cs, hello.comp,
                                              hello.pre \o ServerName(hello.h)))

\* C19 witness: the host name was extracted from a record with a session id,
\* cipher suites, a compression method and an extension before server_name
C19_Witness ==
    /\ sniPc = "extracted"
    /\ changed = "no"
    /\ hello.sid # << >>
    /\ hello.cs # << >>
    /\ hello.comp # << >>
    /\ hello.pre # << >>
    /\ Len(hello.h) > 1
    /\ extracted.sni = hello.h

\* C20: extractSNI reads no index outside its input, returns the empty
\* string when the input is not a handshake record holding a ClientHello,
\* and returns the empty string for every proper prefix of a well-formed
\* record whose last field is the host name.
C20_SniBounds ==
    sniPc = "extracted" =>
        /\ extracted.reads \subseteq 0 .. Len(data) - 1
        /\ (Len(data) < 9 \/ data[1] # 22 \/ data[6] # 1) => extracted.sni = << >>
        /\ changed = "cut" => extracted.sni = << >>
        /\ extracted.sni # << >> =>
              \E a \in extracted.reads :
                  /\ a + Len(extracted.sni) <= Len(data)
                  /\ extracted.sni = SubSeq(data, a + 1, a + Len(extracted.sni))

\* C20 witness: a record whose extensions length was raised beyond the
\* buffer and that was then truncated inside the extensions was parsed, the
\* result being empty
C20_Witness ==
    /\ sniPc = "extracted"
    /\ changed = "both"
    /\ Len(data) > 52
    /\ data[1] = 22
    /\ data[6] = 1
    /\ extracted.sni = << >>
    /\ Cardinality(extracted.reads) > 8

\* a is an initial part of b
IsPrefix(a, b) == Len(a) <= Len(b) /\ a = SubSeq(b, 1, Len(a))

\* the SNI of the connection's first inner bytes
PeekedSni == ExtractSNI(initialData).sni

\* C16, as amended: when the first inner bytes are a TLS handshake record
\* whose SNI is empty or, lower-cased, is not a key of hosts, nothing is
\* dialled or sent upstream, the handler has returned and closed the
\* connection, and unauthorized_sni was counted exactly once and nothing
\* else; a dial is made only for an SNI whose lower-cased form is a key of
\* hosts, and only to the target mapped to it.
C16_UnauthorizedSni ==
    /\ ( /\ initialData # << >>
         /\ initialData[1] = 22
         /\ PeekedSni = << >> \/ LowerBytes(PeekedSni) \notin DOMAIN Hosts )
       => /\ upDialed = ""
          /\ upRecv = << >>
          /\ inPc = "closed"
          /\ ~inApi
          /\ inErrors = [t \in ErrorTypes |->
                            IF t = "unauthorized_sni" THEN 1 ELSE 0]
    /\ upDialed # "" =>
          /\ PeekedSni # << >>
          /\ LowerBytes(PeekedSni) \in DOMAIN Hosts
          /\ upDialed = Hosts[LowerBytes(PeekedSni)]

\* C16 witness: a complete ClientHello naming a host that is not in hosts
\* was refused
C16_Witness ==
    /\ inPc = "closed"
    /\ initialData = cStream
    /\ PeekedSni = << 98 >>
    /\ inErrors["unauthorized_sni"] = 1
    /\ upDialed = ""

\* C16 as stated: no dial is made when the SNI, as the client spelled it, is
\* not a key of hosts.
C16_AsStated ==
    ( /\ initialData # << >>
      /\ initialData[1] = 22
      /\ PeekedSni = << >> \/ PeekedSni \notin DOMAIN Hosts )
    => upDialed = ""

\* C17: the upstream has received an initial part of the client's byte
\* stream at all times; once the relay runs it has received the peeked bytes
\* first and whole, followed by exactly the bytes the relay loop has read.
C17_HelloFirst ==
    /\ IsPrefix(upRecv, cStream)
    /\ inPc = "relay" =>
          /\ IsPrefix(initialData, upRecv)
          /\ upRecv = SubSeq(cStream, 1, cRead)

\* C17 witness: the peek ended inside the ClientHello, and the relay loop
\* has since carried the rest of the stream to the upstream
C17_Witness ==
    /\ inPc = "relay"
    /\ Len(initialData) < Len(cStream) - Len(AppData)
    /\ cRead > Len(initialData)
    /\ upRecv = cStream

FirstFailing(v) ==
    CASE ~v.ip        -> [answer |-> Answer(StatusForbidden, "Forbidden", FALSE),
                          evaluated |-> << "ip" >>]
      [] v.ip /\ ~v.present
                      -> [answer |-> Answer(StatusProxyAuthRequired,
                                            "Proxy Authentication Required", TRUE),
                          evaluated |-> << "ip", "present" >>]
      [] v.ip /\ v.present /\ ~v.valid
                      -> [answer |-> Answer(StatusProxyAuthRequired,
                                            "Proxy Authentication Required", TRUE),
                          evaluated |-> << "ip", "present", "valid" >>]
      [] v.ip /\ v.valid /\ ~v.rate
                      -> [answer |-> Answer(StatusTooManyRequests, "Too Many Requests", FALSE),
                          evaluated |-> << "ip", "present", "valid", "rate" >>]
      [] v.ip /\ v.valid /\ v.rate /\ ~v.expiry
                      -> [answer |-> Answer(StatusForbidden, "Account Expired", FALSE),
                          evaluated |-> << "ip", "present", "valid", "rate", "expiry" >>]
      [] v.ip /\ v.valid /\ v.rate /\ v.expiry /\ ~v.bandwidth
                      -> [answer |-> Answer(StatusForbidden, "Bandwidth Limit Exceeded", FALSE),
                          evaluated |-> << "ip", "present", "valid", "rate", "expiry",
                                          "bandwidth" >>]
      [] v.ip /\ v.valid /\ v.rate /\ v.expiry /\ v.bandwidth /\ ~v.connlimit
                      -> [answer |-> Answer(StatusTooManyRequests,
                                            "Connection Limit Reached", FALSE),
                          evaluated |-> << "ip", "present", "valid", "rate", "expiry",
                                          "bandwidth", "connlimit" >>]
      [] OTHER        -> [answer |-> Answer(0, "", FALSE),
                          evaluated |-> << "ip", "present", "valid", "rate", "expiry",
                                          "bandwidth", "connlimit" >>]

\* the request handleRequest answered last came with valid credentials of a
\* super_admin from a trusted address
Bypassed(q) == q.verdict.valid /\ q.verdict.role = "super_admin" /\ q.verdict.adminIP

\* every check of the request would have passed
AllPass(v) ==
    v.ip /\ v.present /\ v.valid /\ v.rate /\ v.expiry /\ v.bandwidth /\ v.connlimit

\* C21: a request that is not for the PAC file and is not a verified
\* super_admin's is answered by the first check that fails in the order
\* client CIDR (403), credentials present (407 with Proxy-Authenticate),
\* credentials valid (407 with Proxy-Authenticate), rate limit (429), expiry
\* (403), bandwidth cap (403), connection limit (429); no check after the
\* failing one is called, a rate-limit token is taken only from a request
\* whose credentials are valid, and the request is forwarded only if every
\* check passes.
C21_CheckOrder ==
    (hReq # NoRequest /\ ~Bypassed(hReq)) =>
        /\ hReq.code = FirstFailing(hReq.verdict).answer.code
        /\ hReq.body = FirstFailing(hReq.verdict).answer.body
        /\ hReq.authenticate = FirstFailing(hReq.verdict).answer.authenticate
        /\ hReq.evaluated = FirstFailing(hReq.verdict).evaluated
        /\ hReq.forward = AllPass(hReq.verdict)
        /\ hReq.tokens \in {0, RateScale}
        /\ hReq.tokens > 0 => hReq.verdict.valid

\* C21 witness: a request with valid credentials of an expired user whose
\* bucket is empty was answered 429 without the expiry being looked at,
\* while a connection of the user is being forwarded
C21_Witness ==
    /\ hReq.verdict # << >>
    /\ hReq.verdict.valid /\ ~hReq.verdict.rate /\ ~hReq.verdict.expiry
    /\ hReq.code = StatusTooManyRequests
    /\ hReq.evaluated = << "ip", "present", "valid", "rate" >>
    /\ ~hReq.forward

\* the checks of the block that a handler skips for a verified super_admin
PlanCheckNames == << "rate", "expiry", "bandwidth", "connlimit" >>

\* C22: the rate-limit, expiry, bandwidth and connection-limit checks are
\* skipped only for a connection that presented valid credentials of a user
\* whose role is super_admin and that comes from an address inside a
\* super-admin CIDR: a SOCKS5 connection that got past the policy checks
\* without all four having been called is a verified super_admin's.
C22_AsStated ==
    (\E i \in 1 .. Len(sConn.visited) : sConn.visited[i] = "policy")
        => \/ sConn.evaluated = PlanCheckNames
           \/ /\ sConn.valid
              /\ sConn.user.Role = "super_admin"
              /\ sConn.super
              /\ sConn.evaluated = << >>

\* the stages of a SOCKS5 connection in their order
Stages == << "method", "auth", "policy", "request", "dial" >>

\* the last thing written to the client, if any
LastOut(conn) == IF Len(conn.out) = 0 THEN Status(0) ELSE conn.out[Len(conn.out)]

C24_MethodNegotiation ==
    /\ (sConn.offer.complete /\ sConn.offer.ver = Version5
            /\ ~HasUserPass(sConn.offer.methods)) =>
           /\ sConn.out = << Method(MethodNoAcceptable) >>
           /\ sConn.pc = "closed"
           /\ sConn.visited = << >>
    /\ \A i \in 1 .. Len(sConn.out) : sConn.out[i] # Method(MethodNoAuth)

\* C24 witness: a client inside the super-admin CIDR that offered only the
\* no-authentication method was answered 05 FF and closed
C24_Witness ==
    /\ sConn.ip = "10.0.0.1"
    /\ IsSuperAdminIP(store, sConn.ip)
    /\ sConn.offer.complete /\ sConn.offer.ver = Version5
    /\ sConn.offer.methods = << MethodNoAuth >>
    /\ sConn.out = << Method(MethodNoAcceptable) >>
    /\ sConn.pc = "closed"

\* C25: no validate call returns success for a username whose record is
\* disabled in the catalog that is loaded when the call returns: a call
\* that is answered from the credential cache while no reload is under way
\* finds the user in the loaded catalog.
C25_DisabledNeverValid ==
    [][\A p \in Validators :
          (CacheHit(p) /\ loadPc = "idle") => users[ToLower(vName[p])] # NoUser]_vars

\* two records of the file have user names that are equal after folding
HasDuplicate(cfg) ==
    \E i, j \in 1 .. Len(cfg.Users) :
        i < j /\ ToLower(cfg.Users[i].Username) = ToLower(cfg.Users[j].Username)

\* C26: a load of a readable, well-formed file in which two user records
\* have names equal after case-folding returns an error and leaves the user
\* map as it was before the call.
C26_DuplicateRejected ==
    (lastLoad # NoLoad /\ lastLoad.cfg.readable /\ lastLoad.cfg.wellFormed
        /\ HasDuplicate(lastLoad.cfg)) =>
        /\ lastLoad.err # ""
        /\ store.users = lastLoad.store.users

\* C27: a load that returns an error leaves the user map, the client CIDR
\* set, the super-admin CIDR set, the super-admin user, the credential cache
\* and the rate-limit buckets exactly as they were before the call.
C27_FailedLoadChangesNothing ==
    (lastLoad # NoLoad /\ lastLoad.err # "") =>
        /\ store = lastLoad.store
        /\ Limiter = lastLoad.limiter

\* the kinds of operation the engines and the background loop make
DataOps == {"record", "check", "inc", "dec", "save"}

\* C28: whatever os.WriteFile does with the usage file, a record,
\* check_allowance, increment, decrement or save call (a month rollover
\* included) returns the verdict and leaves the in-memory month and counters
\* that the same call gives on a disk that takes the write.
C28_WriteFailureIsolated ==
    [][(nOps' = nOps + 1 /\ lastOp'.kind \in DataOps) =>
          LET had == Applied([tracker EXCEPT !.disk = "ok"], lastOp')
              got == Applied(tracker, lastOp')
          IN  /\ tracker' = got.trk
              /\ got.ok = had.ok
              /\ tracker'.users = had.trk.users
              /\ tracker'.month = had.trk.month]_vars

\* C28 witness: the one record call so far rolled the month over on a full
\* disk: the file is left truncated and the call's bytes are counted
C28_Witness ==
    /\ nOps = 1
    /\ lastOp.kind = "record"
    /\ nowMonth = 1
    /\ zeroings[1] = 1
    /\ tracker.disk = "full"
    /\ tracker.file = TruncatedFile
    /\ tracker.month = 1
    /\ tracker.users[lastOp.user].TotalBytes > 0

\* C29 as stated: the usage file is at every instant absent or a complete
\* snapshot, never a truncated or partly written document.
C29_AtomicPersist == tracker.file # TruncatedFile

\* a pair whose certificate and key parse and belong together
WholePair(p) == p.cert \in 1 .. MaxVersion /\ p.key = p.cert

\* C30: s.cert is at every instant nil or a whole pair; a Reload that fails
\* leaves s.cert as it was, and one on SIGHUP leaves the server as it was;
\* a Reload that succeeds installs the pair it loaded; and a handshake is
\* given the whole pair that s.cert holds when getCertificate runs, which is
\* the pair of the last swap before the handshake began or of a later one.
C30_HotReload ==
    /\ [](srvCert = NilCert \/ WholePair(srvCert))
    /\ [][/\ \A r \in Reloaders :
              (rl[r].pc = "key" /\ rl'[r].err) =>
                  /\ srvCert' = srvCert
                  /\ r = "sighup" => serving' = serving
          /\ \A r \in Reloaders :
              (rl[r].pc = "swap" /\ rl'[r].pc = "idle") =>
                  /\ srvCert' = Pair(rl[r].cert, rl[r].key)
                  /\ WholePair(srvCert')
          /\ \A h \in Handshakes :
              (hs[h].pc = "hello" /\ hs'[h].pc = "served") =>
                  /\ hs'[h].cert = srvCert
                  /\ hs'[h].cert \in hs[h].since
                  /\ WholePair(hs'[h].cert)]_vars

\* C30 witness: the server serves pair 2 after a swap, the last Reload on
\* SIGHUP failed, a handshake begun after the swap got pair 2 and one that
\* had its certificate before the swap still has pair 1
C30_Witness ==
    /\ serving = "serving"
    /\ srvCert = Pair(2, 2)
    /\ rl["sighup"].pc = "idle"
    /\ rl["sighup"].err
    /\ hs[1].pc = "served"
    /\ hs[1].cert = Pair(2, 2)
    /\ hs[2].pc = "served"
    /\ hs[2].cert = Pair(1, 1)

\* C31 as stated: the handler of a tunnel (CONNECT or SOCKS5) closes the two
\* endpoints only after both copy directions have ended.
C31_BothDirectionsEnd ==
    [][\A s \in Sess :
          (tPc[s] = "relay" /\ tPc'[s] = "returned" /\ tKind[s] \in TunnelKinds) =>
              copying[s] = {}]_vars

\* C32 as stated: no caller is inside os.WriteFile on the usage file while
\* it holds t.mu, so that no call of a session waits at t.mu.Lock() for a
\* write of the file to end.
C32_NoLockAcrossWrite ==
    \A c \in Callers : lk[c].pc = "writing" =>
        /\ mu # c
        /\ \A w \in Callers : ~(lk[w].pc = "lock" /\ w = "session")

\* C33 as stated: in every session a RecordBytes call comes after the
\* session's DecrementConns.
C33_DecrementBeforeRecord ==
    \A s \in Lives :
        \A i \in DOMAIN live[s].calls :
            live[s].calls[i] = "record" =>
                \E j \in 1 .. i - 1 : live[s].calls[j] = "dec"

\* the times a call appears among the calls of a session
Times(calls, c) == Cardinality({i \in DOMAIN calls : calls[i] = c})

\* C34: under every key ActiveConns is never negative and equals the number
\* of sessions between their IncrementConns and their DecrementConns under
\* that key (so it is 0 when none is in flight); a session that was admitted
\* and has returned, by whatever path, made exactly one of each call; and a
\* step that is neither of the two calls, a month rollover included, leaves
\* the count as it was.
C34_ActiveConns ==
    /\ [](\A k \in Spellings :
             /\ ConnsOf(tracker, k) >= 0
             /\ ConnsOf(tracker, k)
                   = Cardinality({s \in Counted : ConnKey(live[s]) = k}))
    /\ [](\A s \in Lives :
             (live[s].pc = "returned" /\ Times(live[s].calls, "check") = 1) =>
                 /\ Times(live[s].calls, "inc") = 1
                 /\ Times(live[s].calls, "dec") = 1)
    /\ [][(\A s \in Lives : live'[s].pc \notin {"work", "returned"}
                               \/ live'[s].pc = live[s].pc) =>
             \A k \in Spellings : ConnsOf(tracker', k) = ConnsOf(tracker, k)]_vars

\* C34 witness: one session has returned through a failure with one
\* increment and one decrement; the other recorded its bytes in a new month,
\* which zeroed the bytes, and is still counted
C34_Witness ==
    /\ live[1].pc = "returned"
    /\ live[1].calls = << "check", "inc", "dec" >>
    /\ live[2].pc = "leave"
    /\ live[2].calls = << "check", "inc", "record" >>
    /\ tracker.month = 1
    /\ ConnsOf(tracker, ConnKey(live[2])) = 1

\* C38 as stated: the sessions of the user in flight, in both engines
\* together, are never more than max_connections.
C38_ConcurrencyCap == Cardinality(Counted) <= UserMaxConns

\* C35 as stated: once s.shutdown is closed, no connection that Accept
\* returns is handed to HandleConnection.
C35_NoAdmissionAfterShutdown ==
    [][\A c \in Conns :
          (connPc[c] = "idle" /\ connPc'[c] = "peek") => ~shutdown]_vars

\* C36 as stated: a rate-limit check that passes for a user with
\* rate_limit_rpm > 0 takes its token from the one bucket of that user,
\* however the client spelled the name.
C36_OneBucketPerUser ==
    [][(nChecks' = nChecks + 1 /\ ~Unlimited(catUser) /\ allowed' = "yes") =>
          /\ buckets[catUser.Username] # NoBucket
          /\ buckets'[catUser.Username].tokens
                = Refilled(buckets[catUser.Username]) - RateScale]_vars

\* C37: for each client IP, as ServeHTTP takes it from the request, at most
\* PAC_RATE_LIMIT_RPM requests are admitted in the window that its first
\* admitted request opened, and the limiter's window start is that
\* request's time; a request that arrives in the window after the limit is
\* reached is answered 429 and gets no script; a window start moves only
\* when more than a minute has passed since it, or there was none.
C37_PacWindow ==
    /\ [](\A k \in PacKeys :
             /\ admCount[k] <= PacRateLimitRPM
             /\ rateWindow[k] = admWindow[k])
    /\ [][\A k \in PacKeys :
             /\ (/\ pacNow' = pacNow
                 /\ pacLast'.key = k
                 /\ admWindow[k] # -1
                 /\ pacNow - admWindow[k] <= PacTicksPerMinute
                 /\ admCount[k] >= PacRateLimitRPM)
                    => /\ pacLast'.status = StatusTooManyRequests
                       /\ ~pacLast'.script
                       /\ admCount'[k] = admCount[k]
             /\ rateWindow'[k] # rateWindow[k]
                    => \/ rateWindow[k] = -1
                       \/ pacNow - rateWindow[k] > PacTicksPerMinute]_vars

\* a client IP has used up its window: the limit was reached, a further
\* request was answered 429, and after more than a minute a new window
\* opened for it while another client IP's window is still the first one
C37_Witness ==
    /\ pacLast = [key |-> "10.0.0.1", status |-> StatusTooManyRequests, script |-> FALSE]
    /\ admCount["10.0.0.1"] = PacRateLimitRPM
    /\ admWindow["10.0.0.1"] = PacTicksPerMinute + 1
    /\ admCount["203.0.113.9"] = 1
    /\ admWindow["203.0.113.9"] = PacTicksPerMinute

\* the goroutines of admitted connections that have not finished
Running == {c \in Conns : connPc[c] \notin {"idle", "rejected", "finished"}}

\* C39: every admitted connection of the Signal engine gives its slot back
\* exactly once, whatever way its handler ends: a handler that returns (peek
\* failure, SNI not allowed, API request, dial failure, write failure, end
\* of the relay, cancellation) takes one off the gauge and keeps its slot
\* until its goroutine's deferred release, which takes exactly one token out
\* of the semaphore; no other step takes a token out, and a finished
\* goroutine holds nothing.  When no session goroutine is running the
\* semaphore is empty and the gauge is 0.
C39_SlotRelease ==
    /\ [](Running = {} => (connSem = 0 /\ activeConns = 0))
    /\ [](connSem = Cardinality({c \in Conns : connPc[c] \in InHandler \cup {"returned"}}))
    /\ [](activeConns = Cardinality({c \in Conns : connPc[c] \in InHandler}))
    /\ [][\A c \in Conns :
             /\ (connPc[c] \in InHandler /\ connPc'[c] \notin InHandler)
                    => /\ connPc'[c] = "returned"
                       /\ activeConns' = activeConns - 1
                       /\ connSem' = connSem
             /\ (connPc[c] = "returned" /\ connPc'[c] # "returned")
                    => /\ connPc'[c] = "released"
                       /\ connSem' = connSem - 1
             /\ (connPc[c] \in {"released", "finished"})
                    => connPc'[c] \in {"released", "finished"}]_vars
    /\ [][connSem' < connSem =>
             Cardinality({c \in Conns : connPc[c] = "returned" /\ connPc'[c] = "released"}) = 1]_vars

\* C39 witness: after the cancellation no session goroutine is left, all
\* slots are free and the gauge is 0; two connections had been admitted and
\* one of them was in its handler when the context was cancelled
C39_Witness ==
    /\ Running = {}
    /\ connSem = 0
    /\ activeConns = 0
    /\ ctxDone
    /\ Cardinality({c \in Conns : connPc[c] = "finished"}) >= 2
    /\ \E c \in atCancel : connPc[c] = "finished"

\* C40: whenever Shutdown of the SOCKS5 engine is called after or together
\* with the cancellation of Start's context, the shutdown channel is closed
\* at most once, and Shutdown has returned only when every session handler
\* has returned.
C40_ShutdownSafe ==
    /\ shutdownCloses <= 1
    /\ socksSdPc = "returned" => SocksWg = 0

====
